---------------------------- MODULE Spec2Model ----------------------------
(***************************************************************************)
(* AbletonBridge: the command channel (MCP_Server/connections/ableton.py). *)
(* AbletonConnection.send_command and receive_full_response are modelled   *)
(* statement by statement; the Remote Script at the far end of the TCP     *)
(* connection is the environment.                                          *)
(***************************************************************************)
EXTENDS Integers, Sequences, FiniteSets, TLC

(***************************************************************************)
(* Command tables (MCP_Server/constants.py, connections/ableton.py)        *)
(***************************************************************************)
TIER_0_COMMANDS ==
    { "set_tempo", "set_track_name", "set_clip_name", "set_track_color",
      "set_clip_color", "set_track_mute", "set_track_solo", "set_track_arm",
      "set_metronome", "set_track_pan", "set_track_volume",
      "set_return_track_volume", "set_return_track_pan", "set_track_send",
      "set_master_volume", "start_playback", "stop_playback",
      "undo", "redo", "set_song_time", "set_song_loop",
      "set_clip_looping", "set_device_parameter", "set_device_enabled",
      "fire_clip", "stop_clip", "fire_scene",
      "select_scene", "select_track", "set_detail_clip",
      "set_track_fold", "set_crossfade_assign",
      "set_track_monitoring", "set_clip_launch_mode",
      "set_clip_launch_quantization", "set_clip_legato",
      "set_scene_name", "set_scene_tempo", "tap_tempo",
      "set_arrangement_overdub", "set_track_routing", "navigate_playback",
      "set_clip_pitch", "set_groove_settings", "set_song_settings",
      "trigger_session_record", "set_or_delete_cue", "jump_to_cue",
      "preview_browser_item", "move_clip_playing_pos",
      "set_transmute_properties", "rack_variation_action",
      "set_return_track_mute", "set_return_track_solo", "set_clip_grid" }

\* Mutant of TIER_1_COMMANDS: a table that shares create_clip with Tier 2.
TIER_1_WithCreateClip == { "add_notes_to_clip", "duplicate_clip_loop", "create_clip" }

TIER_1_COMMANDS ==
    { "add_notes_to_clip", "add_notes_extended", "remove_notes_range",
      "clear_clip_notes", "quantize_clip_notes", "transpose_clip_notes",
      "set_clip_loop_points", "set_clip_start_end",
      "create_clip_automation", "clear_clip_automation",
      "create_track_automation", "clear_track_automation",
      "duplicate_clip", "duplicate_clip_loop", "duplicate_clip_region",
      "crop_clip", "reverse_clip", "set_clip_warp", "set_warp_mode",
      "apply_groove", "set_drum_pad", "copy_drum_pad", "capture_midi",
      "set_compressor_sidechain", "set_eq8_properties",
      "set_simpler_properties", "simpler_sample_action", "manage_sample_slices",
      "set_hybrid_reverb_ir", "duplicate_clip_to_arrangement" }

TIER_2_COMMANDS ==
    { "create_midi_track", "create_audio_track", "create_clip",
      "delete_clip", "delete_track", "duplicate_track",
      "create_return_track", "create_scene", "delete_scene",
      "load_instrument_or_effect", "load_sample", "load_drum_kit",
      "group_tracks", "freeze_track", "unfreeze_track",
      "audio_to_midi", "create_midi_track_with_simpler",
      "sliced_simpler_to_drum_rack", "delete_device",
      "delete_time", "duplicate_time", "insert_silence",
      "arm_track", "disarm_track",
      "start_arrangement_recording", "stop_arrangement_recording",
      "set_loop_start", "set_loop_end", "set_loop_length",
      "set_playback_position" }

MODIFYING_COMMANDS == TIER_0_COMMANDS \cup TIER_1_COMMANDS \cup TIER_2_COMMANDS

NON_IDEMPOTENT_COMMANDS ==
    { "create_midi_track", "create_audio_track", "create_clip",
      "create_return_track", "create_scene", "delete_track",
      "delete_clip", "delete_scene", "delete_device",
      "duplicate_track", "duplicate_clip", "add_notes_to_clip",
      "add_notes_extended", "delete_return_track" }

\* The command types of the tier tables whose name starts with create_,
\* delete_ or duplicate_ (TLC has no substring operator: the names are read
\* off the three tables above).
CreateDeleteDuplicateNamed ==
    { "create_clip_automation", "create_track_automation",
      "duplicate_clip", "duplicate_clip_loop", "duplicate_clip_region",
      "duplicate_clip_to_arrangement",
      "create_midi_track", "create_audio_track", "create_clip",
      "delete_clip", "delete_track", "duplicate_track",
      "create_return_track", "create_scene", "delete_scene",
      "create_midi_track_with_simpler", "delete_device",
      "delete_time", "duplicate_time" }

\* The command types the callers of the model draw from: one or two of each
\* class (tier x idempotency), among them names of the create_/duplicate_
\* family on both sides of NON_IDEMPOTENT_COMMANDS.
Commands ==
    { "get_session_info", "set_tempo", "add_notes_to_clip",
      "duplicate_clip_loop", "create_midi_track", "load_sample" }

(***************************************************************************)
(* Bounds                                                                  *)
(***************************************************************************)
MaxCalls    == 2   \* send_command calls of the single caller
MaxSocks    == 4   \* socket objects the connection creates in one behaviour
MaxText     == 4   \* characters of the remote's text in the framing check

Threads == {1, 2}

(***************************************************************************)
(* Bytes and characters.  A byte or a character is a record; "obj" stands  *)
(* for the whole text of a JSON object {"status": ..., ...} that answers   *)
(* write number id, "lead"/"cont" are the two bytes of a two-byte UTF-8    *)
(* character, "e2" is that character once decoded.                         *)
(***************************************************************************)
Tok(c, id, st) == [c |-> c, id |-> id, st |-> st]
Ch(c) == Tok(c, 0, "-")
NL == Ch("nl")
SP == Ch("sp")
QUOTE == Ch("q")
E2 == Ch("e2")
GARBAGE == Ch("x")
LEAD == Ch("lead")
CONT == Ch("cont")
Obj(id, st) == Tok("obj", id, st)

NoValue == Tok("none", 0, "-")

(***************************************************************************)
(* Pure helpers of receive_full_response                                   *)
(***************************************************************************)
\* bytes.decode('utf-8') of one recv chunk: a two-byte character decodes
\* only when both of its bytes are in the chunk.
RECURSIVE Decode(_)
Decode(bs) ==
    IF bs = <<>> THEN [ok |-> TRUE, chars |-> <<>>]
    ELSE IF Head(bs) = LEAD
         THEN IF Len(bs) >= 2 /\ bs[2] = CONT
              THEN LET r == Decode(SubSeq(bs, 3, Len(bs)))
                   IN  [ok |-> r.ok, chars |-> <<E2>> \o r.chars]
              ELSE [ok |-> FALSE, chars |-> <<>>]
    ELSE IF Head(bs) = CONT
         THEN [ok |-> FALSE, chars |-> <<>>]
    ELSE LET r == Decode(Tail(bs))
         IN  [ok |-> r.ok, chars |-> <<Head(bs)>> \o r.chars]

\* str.encode('utf-8'), the remote's side of the wire.
RECURSIVE Encode(_)
Encode(cs) ==
    IF cs = <<>> THEN <<>>
    ELSE (IF Head(cs) = E2 THEN <<LEAD, CONT>> ELSE <<Head(cs)>>)
         \o Encode(Tail(cs))

\* '\n' in buf
HasNL(buf) == \E i \in 1..Len(buf) : buf[i] = NL

FirstNL(buf) == CHOOSE i \in 1..Len(buf) :
                    buf[i] = NL /\ \A j \in 1..(i - 1) : buf[j] # NL

\* buf.split('\n', 1)
SplitLine(buf) == SubSeq(buf, 1, FirstNL(buf) - 1)
SplitRest(buf) == SubSeq(buf, FirstNL(buf) + 1, Len(buf))

\* str.strip()
RECURSIVE Strip(_)
Strip(l) ==
    IF l = <<>> THEN <<>>
    ELSE IF Head(l) = SP THEN Strip(Tail(l))
    ELSE IF l[Len(l)] = SP THEN Strip(SubSeq(l, 1, Len(l) - 1))
    ELSE l

\* json.loads(line) on the model's alphabet: a JSON text is one object, or a
\* string literal "..." ; anything else raises JSONDecodeError.
IsStringLit(l) ==
    /\ Len(l) >= 2
    /\ l[1] = QUOTE
    /\ l[Len(l)] = QUOTE
    /\ \A i \in 2..(Len(l) - 1) : l[i].c \in {"sp", "e2", "x"}
IsJson(l) == (Len(l) = 1 /\ l[1].c = "obj") \/ IsStringLit(l)
JsonLoads(l) == IF Len(l) = 1 /\ l[1].c = "obj" THEN l[1]
                ELSE Tok("str", Len(l) - 2, "-")

(***************************************************************************)
(* Pure helpers of send_command                                            *)
(***************************************************************************)
\* Mutants of MaxAttempts: every command retried; no command retried.
MaxAttemptsAlwaysTwo(c) == 2
MaxAttemptsAlwaysOne(c) == 1

\* max_attempts = 1 if command_type in NON_IDEMPOTENT_COMMANDS else 2
MaxAttempts(c) == IF c \in NON_IDEMPOTENT_COMMANDS THEN 1 ELSE 2

\* pre_delay, post_delay of the command's tier, in milliseconds
\* Mutants of PreDelay and PostDelay: every command is delayed.
PreDelayEverywhere(c) == 100
PostDelayEverywhere(c) == 100

PreDelay(c)  == IF c \in TIER_2_COMMANDS THEN 100 ELSE 0
PostDelay(c) == IF c \in TIER_2_COMMANDS THEN 100
                ELSE IF c \in TIER_1_COMMANDS THEN 50 ELSE 0

\* time.sleep(0.3) before the reconnect, in milliseconds
RetryBackoff == 300

\* if attempt < max_attempts
AttemptsRemain(a, m) == a < m

\* Mutant of ClearedBuffer: the except branch leaves the buffer as it is.
KeptBuffer(buf) == buf

\* self._recv_buffer = "" in the except branch
ClearedBuffer(buf) == <<>>

\* response.get("status") == "error"
IsErrorStatus(r) == r.st = "error"

\* timeout = 15.0 if is_modifying else 10.0, in milliseconds; and the
\* default of receive_full_response's parameter timeout.
TimeoutModifying == 15000
TimeoutReadOnly == 10000
ReceiveDefaultTimeout == 15000

\* Mutant of EffectiveTimeout: the default replaces a caller's timeout.
DefaultTimeoutAlways(to, c) ==
    IF c \in MODIFYING_COMMANDS THEN TimeoutModifying ELSE TimeoutReadOnly

\* if timeout is None: timeout = 15.0 if is_modifying else 10.0
EffectiveTimeout(to, c) ==
    IF to # 0 THEN to
    ELSE IF c \in MODIFYING_COMMANDS THEN TimeoutModifying ELSE TimeoutReadOnly

\* The timeouts a caller passes: None, one below and one above the defaults.
TimeoutArgs == {0, 1000, 30000}

(***************************************************************************)
(* State                                                                   *)
(***************************************************************************)
VARIABLES
    sock,          \* self.sock: 0 is None, n > 0 the n-th socket object created
    recv_buffer,   \* self._recv_buffer: the decoded characters not yet consumed
    nextSock,      \* number of socket objects connected so far
    closed,        \* the socket objects close() was called on
    peer,          \* per socket: what the remote end did ("none", "open", "reset", "shut")
    inbox,         \* per socket: the writes the remote received and has not answered
    stream,        \* per socket: the bytes that have arrived and recv has not returned yet
    wire,          \* per socket: the bytes the remote sent that have not arrived yet
    nextId,        \* number of command lines written so far (a write's identity)
    late,          \* the latest write the remote answered when no caller was waiting for it (0: none)
    pc,            \* per caller: the statement it is at
    mode,          \* per caller: "cmd" inside send_command, "direct" a bare receive_full_response
    command_type,  \* per caller: send_command's command_type
    attempt,       \* per caller: the loop variable attempt
    sends,         \* per caller: calls of sock.sendall in the current send_command
    lastWrite,     \* per caller: the identity of its most recent write
    rsock,         \* per caller: receive_full_response's parameter sock
    chunk,         \* per caller: the bytes its last recv returned
    ret,           \* per caller: the value receive_full_response returned
    exc,           \* per caller: the exception that left the call
    fails,         \* per caller: the failure of each failed attempt of the current call
    events,        \* per caller: what the current call did to the channel, in order
    budget,        \* per caller: calls it may still start
    overlapped,    \* per caller: another caller was inside send_command during its call
    rxInput,       \* the characters ahead of a direct receive_full_response call
    recording,     \* whether the history variables events and late are kept
    timeoutArg,    \* per caller: send_command's argument timeout (0 is None)
    timeout,       \* per caller: send_command's variable timeout (0 is None)
    conn,          \* state.ableton_connection: 0 is None, n > 0 the n-th instance created
    nextConn,      \* number of AbletonConnection instances created so far
    gpc,           \* the statement of get_ableton_connection the caller is at
    gattempt,      \* get_ableton_connection's loop variable attempt
    gret,          \* the instance get_ableton_connection returned (0: none)
    g0,            \* conn, nextConn, nextSock and nextId when get_ableton_connection was called
    gcalls,        \* calls of get_ableton_connection so far
    gprobe,        \* the outcome of the current call's liveness probe ("none": not made)
    gsleeps,       \* the 1 s sleeps of the current get_ableton_connection call
    connected_event, \* state.ableton_connected_event is set
    lockHolder,    \* the server process whose socket is bound to the lock port (0: none)
    ipc,           \* per server process: where it is in server_lifespan
    lock_sock,     \* per server process: state.singleton_lock_sock (0 is None, 1 a socket)
    exitStatus,    \* per server process: the status it exits with (-1: none yet)
    tried,         \* per server process: it has called get_ableton_connection
    held,          \* per server process: its state.ableton_connection is not None
    starts,        \* per server process: how often it was started
    clock,         \* time.time(), in seconds
    m4l_ping_cache, \* state.m4l_ping_cache
    m4l_connection, \* state.m4l_connection: "none" is None, else whether its _connected is set
    auto,          \* the M4L auto-connect thread: "off", "trying" or "done"
    autoAt,        \* the number of finished status checks when auto-connect wrote the cache (-1: never)
    mpc,           \* where the caller of get_m4l_status is: "idle" or "ping"
    mnow,          \* get_m4l_status's variable now
    checks,        \* the finished calls of get_m4l_status, in order
    udp_sock,      \* self._udp_sock: 0 is None, n > 0 the n-th UDP socket object created
    nextUdp,       \* number of UDP socket objects created so far
    udp_closed,    \* the UDP socket objects close() was called on
    datagrams,     \* the datagrams handed to the network so far, in order
    udp_last,      \* the last call of send_udp_command: what it found and how it ended
    scan_pc,       \* where populate_browser_cache is
    scan_ret,      \* how populate_browser_cache ended ("none": it has not)
    browser_cache_populating, \* state.browser_cache_populating
    shared_sock,   \* the socket of the shared state.ableton_connection during a scan (0: none)
    shared_uses,   \* the commands other tools sent on the shared connection during a scan
    tool_pc,       \* the wrapper of _tool_handler: "idle", "running" or "done"
    tool_prefix,   \* _tool_handler's argument error_prefix
    tool_outcome,  \* what the wrapped tool function did: the value it returned or the exception it raised
    tool_result,   \* what the wrapper did: the value it returned or the exception that left it
    batch_last,    \* the last batched parameter-set bridge command: its parameter count and receive timeout
    batch_prev,    \* the one before it
    osc_pc,        \* the control message: "idle", "built" (encoded) or "parsed" (decoded at the far end)
    osc_in,        \* the address and the arguments given to _build_osc_message
    osc_msg,       \* the bytes it returned
    osc_again,     \* the bytes a second call with the same arguments returned
    osc_out,       \* the address and the arguments the receiver decoded
    chunk_pc,      \* a bridge response: "idle", "sent", "waiting" (in the receive loop) or "done"
    chunk_doc,     \* the document the bridge answered with
    chunk_parts,   \* the slices of its JSON text, one per chunk
    chunk_buf,     \* the receiver's buffer: chunk index -> data slice as received
    chunk_order,   \* the chunk indices in the order they arrived
    chunk_recvs,   \* the recvfrom calls _reassemble_chunked_response made
    chunk_result,  \* what _reassemble_chunked_response returned or raised
    shared_conn,   \* state.ableton_connection as two concurrent callers share it: 0 is None, i > 0 the i-th instance
    nextInst,      \* number of AbletonConnection instances the two callers created
    inst_sock,     \* per instance: its self.sock, "none" (None) or "open"
    validated,     \* the instances whose validating send_command returned
    cpc,           \* per concurrent caller: the statement of get_ableton_connection it is at
    cattempt,      \* per concurrent caller: its loop variable attempt
    cret,          \* per concurrent caller: what its call returned (-1: nothing yet, 0: None)
    browser_cache_lock,      \* state.browser_cache_lock: the thread that holds it (0: free)
    browser_cache_flat,      \* state.browser_cache_flat: the number of paths whose items it holds
    browser_cache_timestamp, \* state.browser_cache_timestamp: the number of times it was set
    bpc,           \* per thread: the statement of populate_browser_cache it is at
    bforce,        \* per thread: the argument force
    bret,          \* per thread: how its last call ended ("none": it has not)
    bsock,         \* per thread: the sock of its dedicated connection, "none" or "open"
    bcat,          \* per thread: the category its scan is at
    bpath,         \* per thread: the path of that category its scan is at
    bitems,        \* per thread: flat_items, the number of paths whose items it holds
    bcalls,        \* the calls of populate_browser_cache so far
    auto_pc,       \* per server process: where its m4l-auto-connect thread is
    m4l_socks,     \* per server process: the UDP sockets of its M4LConnection, "none" or "open"
    state_m4l      \* per server process: state.m4l_connection is not None

netVars  == <<nextSock, closed, peer, inbox, stream, wire, nextId, late>>
connVars == <<sock, recv_buffer>>
toVars   == <<timeoutArg, timeout>>
getVars  == <<conn, nextConn, gpc, gattempt, gret, g0, gcalls, gprobe, gsleeps,
              connected_event>>
lockVars == <<lockHolder, ipc, lock_sock, exitStatus, tried, held, starts>>
m4lVars  == <<clock, m4l_ping_cache, m4l_connection, auto, autoAt, mpc, mnow, checks>>
udpVars  == <<udp_sock, nextUdp, udp_closed, datagrams, udp_last>>
scanVars == <<scan_pc, scan_ret, browser_cache_populating, shared_sock, shared_uses>>
toolVars == <<tool_pc, tool_prefix, tool_outcome, tool_result>>
batchVars == <<batch_last, batch_prev>>
oscVars == <<osc_pc, osc_in, osc_msg, osc_again, osc_out>>
chunkVars == <<chunk_pc, chunk_doc, chunk_parts, chunk_buf, chunk_order, chunk_recvs, chunk_result>>
pureVars == <<toolVars, batchVars, oscVars, chunkVars>>
raceVars == <<shared_conn, nextInst, inst_sock, validated, cpc, cattempt, cret>>
cacheVars == <<browser_cache_lock, browser_cache_flat, browser_cache_timestamp, bpc, bforce,
               bret, bsock, bcat, bpath, bitems, bcalls>>
lifeVars == <<auto_pc, m4l_socks, state_m4l>>
idleVars == <<pureVars, raceVars, cacheVars, lifeVars>>
restVars == <<scanVars, idleVars>>
extVars  == <<udpVars, restVars>>
otherVars == <<getVars, lockVars, m4lVars, extVars>>
auxVars  == <<toVars, otherVars>>
callVars == <<pc, mode, command_type, attempt, sends, lastWrite, rsock, chunk,
              ret, exc, fails, events, budget, overlapped, rxInput, recording, auxVars>>
vars == <<sock, recv_buffer, nextSock, closed, peer, inbox, stream, wire, nextId,
          late,
          pc, mode, command_type, attempt, sends, lastWrite, rsock, chunk,
          ret, exc, fails, events, budget, overlapped, rxInput, recording,
          timeoutArg, timeout,
          conn, nextConn, gpc, gattempt, gret, g0, gcalls, gprobe, gsleeps,
          connected_event,
          lockHolder, ipc, lock_sock, exitStatus, tried, held, starts,
          clock, m4l_ping_cache, m4l_connection, auto, autoAt, mpc, mnow, checks,
          udp_sock, nextUdp, udp_closed, datagrams, udp_last,
          scan_pc, scan_ret, browser_cache_populating, shared_sock, shared_uses,
          tool_pc, tool_prefix, tool_outcome, tool_result,
          batch_last, batch_prev,
          osc_pc, osc_in, osc_msg, osc_again, osc_out,
          chunk_pc, chunk_doc, chunk_parts, chunk_buf, chunk_order, chunk_recvs, chunk_result,
          shared_conn, nextInst, inst_sock, validated, cpc, cattempt, cret,
          browser_cache_lock, browser_cache_flat, browser_cache_timestamp, bpc, bforce,
          bret, bsock, bcat, bpath, bitems, bcalls, auto_pc, m4l_socks, state_m4l>>

Socks == 1..MaxSocks

\* The call's event log with es appended (left alone when it is not kept).
Logged(t, es) == IF recording THEN [events EXCEPT ![t] = @ \o es] ELSE events

NoExc == [type |-> "none", kind |-> "none", n |-> 0, id |-> 0]

RxPcs == {"rx_enter", "rx_test", "rx_split", "rx_recv", "rx_append"}
InCall(t) == pc[t] \notin {"idle", "returned", "raised", "rx_returned", "rx_raised"}

InitChannel ==
    /\ sock = 0
    /\ recv_buffer = <<>>
    /\ nextSock = 0
    /\ closed = {}
    /\ peer = [s \in Socks |-> "none"]
    /\ inbox = [s \in Socks |-> <<>>]
    /\ stream = [s \in Socks |-> <<>>]
    /\ wire = [s \in Socks |-> <<>>]
    /\ nextId = 0
    /\ late = 0

InitCallers ==
    /\ pc = [t \in Threads |-> "idle"]
    /\ mode = [t \in Threads |-> "cmd"]
    /\ command_type = [t \in Threads |-> "get_session_info"]
    /\ attempt = [t \in Threads |-> 0]
    /\ sends = [t \in Threads |-> 0]
    /\ lastWrite = [t \in Threads |-> 0]
    /\ rsock = [t \in Threads |-> 0]
    /\ chunk = [t \in Threads |-> <<>>]
    /\ ret = [t \in Threads |-> NoValue]
    /\ exc = [t \in Threads |-> NoExc]
    /\ fails = [t \in Threads |-> <<>>]
    /\ events = [t \in Threads |-> <<>>]
    /\ overlapped = [t \in Threads |-> FALSE]
    /\ rxInput = <<>>
    /\ timeoutArg = [t \in Threads |-> 0]
    /\ timeout = [t \in Threads |-> 0]

M4L_PING_CACHE_TTL == 5

\* No M4L connection exists and nobody asks for its status.  The clock starts
\* where the initial cache entry (timestamp 0.0) is already older than the TTL,
\* as it is for any wall-clock time.
InitNoM4L ==
    /\ clock = M4L_PING_CACHE_TTL
    /\ m4l_ping_cache = [result |-> FALSE, timestamp |-> 0]
    /\ m4l_connection = "none"
    /\ auto = "off"
    /\ autoAt = -1
    /\ mpc = "idle"
    /\ mnow = 0
    /\ checks = <<>>

NoUdpCall == [calls |-> 0, type |-> "none", sock |-> 0, outcome |-> "none"]

\* The connection has sent nothing over UDP.
InitNoUdp ==
    /\ udp_sock = 0
    /\ nextUdp = 0
    /\ udp_closed = {}
    /\ datagrams = <<>>
    /\ udp_last = NoUdpCall

\* No browser scan runs.
InitNoScan ==
    /\ scan_pc = "off"
    /\ scan_ret = "none"
    /\ browser_cache_populating = FALSE
    /\ shared_sock = 0
    /\ shared_uses = 0

NoOutcome == [kind |-> "none"]

\* No tool is called.
InitNoTool ==
    /\ tool_pc = "idle"
    /\ tool_prefix = "-"
    /\ tool_outcome = NoOutcome
    /\ tool_result = NoOutcome

NoBatch == [count |-> 0, timeout |-> 0]

\* No batched bridge command was sent.
InitNoBatch ==
    /\ batch_last = NoBatch
    /\ batch_prev = NoBatch

NoMessage == [address |-> <<>>, args |-> <<>>]

\* No control message was built.
InitNoOsc ==
    /\ osc_pc = "idle"
    /\ osc_in = NoMessage
    /\ osc_msg = <<>>
    /\ osc_again = <<>>
    /\ osc_out = NoMessage

NoResult == [kind |-> "none"]

\* No bridge response is under way.
InitNoChunk ==
    /\ chunk_pc = "idle"
    /\ chunk_doc = <<>>
    /\ chunk_parts = <<>>
    /\ chunk_buf = <<>>
    /\ chunk_order = <<>>
    /\ chunk_recvs = 0
    /\ chunk_result = NoResult

InitNoPure ==
    /\ InitNoTool
    /\ InitNoBatch
    /\ InitNoOsc
    /\ InitNoChunk

\* The instances two callers of get_ableton_connection can create: three
\* iterations of the loop each.
Insts == 1..6

\* No two callers are inside get_ableton_connection together.
InitNoRace ==
    /\ shared_conn = 0
    /\ nextInst = 0
    /\ inst_sock = [i \in Insts |-> "none"]
    /\ validated = {}
    /\ cpc = [t \in Threads |-> "idle"]
    /\ cattempt = [t \in Threads |-> 0]
    /\ cret = [t \in Threads |-> -1]

\* No thread is in populate_browser_cache and the cache is empty.
InitNoCache ==
    /\ browser_cache_lock = 0
    /\ browser_cache_flat = 0
    /\ browser_cache_timestamp = 0
    /\ bpc = [t \in Threads |-> "idle"]
    /\ bforce = [t \in Threads |-> FALSE]
    /\ bret = [t \in Threads |-> "none"]
    /\ bsock = [t \in Threads |-> "none"]
    /\ bcat = [t \in Threads |-> 0]
    /\ bpath = [t \in Threads |-> 0]
    /\ bitems = [t \in Threads |-> 0]
    /\ bcalls = 0

\* No m4l-auto-connect thread runs and no M4LConnection exists.
InitNoLife ==
    /\ auto_pc = [i \in {1, 2} |-> "off"]
    /\ m4l_socks = [i \in {1, 2} |-> "none"]
    /\ state_m4l = [i \in {1, 2} |-> FALSE]

InitNoIdle ==
    /\ InitNoPure
    /\ InitNoRace
    /\ InitNoCache
    /\ InitNoLife

InitNoExt ==
    /\ InitNoUdp
    /\ InitNoScan
    /\ InitNoIdle

Servers == {1, 2}

\* No server process is modelled: the callers live in one running server.
InitNoServer ==
    /\ lockHolder = 0
    /\ ipc = [i \in Servers |-> "off"]
    /\ lock_sock = [i \in Servers |-> 0]
    /\ exitStatus = [i \in Servers |-> -1]
    /\ tried = [i \in Servers |-> FALSE]
    /\ held = [i \in Servers |-> FALSE]
    /\ starts = [i \in Servers |-> 0]

\* What get_ableton_connection finds when it is called.
AtCall == [conn |-> conn, inst |-> nextConn, sock |-> nextSock, id |-> nextId]

\* get_ableton_connection is not in use: the callers hold instance 1.
InitHeld ==
    /\ conn = 1
    /\ nextConn = 1
    /\ gpc = "idle"
    /\ gattempt = 0
    /\ gret = 0
    /\ g0 = AtCall
    /\ gcalls = 0
    /\ gprobe = "none"
    /\ gsleeps = 0
    /\ connected_event = FALSE

\* One AbletonConnection, freshly constructed, used by one caller.
Init ==
    /\ InitChannel
    /\ InitCallers
    /\ InitHeld
    /\ InitNoServer
    /\ InitNoM4L
    /\ InitNoExt
    /\ budget = [t \in Threads |-> IF t = 1 THEN MaxCalls ELSE 0]
    /\ recording = TRUE

(***************************************************************************)
(* AbletonConnection.connect / disconnect                                  *)
(***************************************************************************)
\* connect() when self.sock is None and the TCP connect succeeds: a new
\* socket object, and the receive buffer cleared.
ConnectOk(t) ==
    /\ nextSock < MaxSocks
    /\ sock' = nextSock + 1
    /\ nextSock' = nextSock + 1
    /\ peer' = [peer EXCEPT ![nextSock + 1] = "open"]
    /\ recv_buffer' = <<>>
    /\ events' = Logged(t, <<<<"connect", nextSock + 1>>>>)

\* connect() when the TCP connect raises: self.sock = None, return False.
ConnectFail(t) ==
    /\ sock' = 0
    /\ events' = Logged(t, <<<<"connect_failed", 0>>>>)
    /\ UNCHANGED <<nextSock, peer, recv_buffer>>

\* disconnect(): close self.sock if there is one, and set it to None.  The
\* bytes still on their way to a closed socket are gone.
\* Mutant of SockAfterDisconnect: self.sock keeps the closed socket object.
SockKept(s) == s

SockAfterDisconnect(s) == 0
ClosedAfterDisconnect(s) == IF s = 0 THEN closed ELSE closed \cup {s}
StreamAfterDisconnect(s) == IF s = 0 THEN stream ELSE [stream EXCEPT ![s] = <<>>]
WireAfterDisconnect(s) == IF s = 0 THEN wire ELSE [wire EXCEPT ![s] = <<>>]
\* The remote sees the connection end: it answers nothing more on it.
InboxAfterDisconnect(s) == IF s = 0 THEN inbox ELSE [inbox EXCEPT ![s] = <<>>]
PeerAfterDisconnect(s) == IF s = 0 THEN peer ELSE [peer EXCEPT ![s] = "gone"]

\* disconnect(), second half: if self._udp_sock: close it, and set it to None.
DisconnectUdp ==
    /\ udp_closed' = IF udp_sock = 0 THEN udp_closed ELSE udp_closed \cup {udp_sock}
    /\ udp_sock' = 0
    /\ UNCHANGED <<nextUdp, datagrams, udp_last>>

(***************************************************************************)
(* AbletonConnection.send_command                                          *)
(***************************************************************************)
\* A failure inside the try block: every exception is an Exception and is
\* caught by `except Exception as e`.
Fail(t, kind) ==
    /\ fails' = [fails EXCEPT ![t] = Append(@, kind)]
    /\ pc' = [pc EXCEPT ![t] = "except"]

\* send_command(command_type): the tier and max_attempts are functions of
\* command_type, the loop starts with attempt = 1.
Call(t, c, to) ==
    /\ pc[t] \in {"idle", "returned", "raised"}
    /\ budget[t] > 0
    /\ budget' = [budget EXCEPT ![t] = @ - 1]
    /\ pc' = [pc EXCEPT ![t] = "attempt"]
    /\ mode' = [mode EXCEPT ![t] = "cmd"]
    /\ command_type' = [command_type EXCEPT ![t] = c]
    /\ attempt' = [attempt EXCEPT ![t] = 1]
    /\ sends' = [sends EXCEPT ![t] = 0]
    /\ lastWrite' = [lastWrite EXCEPT ![t] = 0]
    /\ ret' = [ret EXCEPT ![t] = NoValue]
    /\ exc' = [exc EXCEPT ![t] = NoExc]
    /\ fails' = [fails EXCEPT ![t] = <<>>]
    /\ events' = [events EXCEPT ![t] = <<>>]
    /\ overlapped' = [u \in Threads |->
                        IF u = t THEN \E v \in Threads \ {t} : InCall(v)
                        ELSE overlapped[u] \/ InCall(u)]
    /\ timeoutArg' = [timeoutArg EXCEPT ![t] = to]
    /\ timeout' = [timeout EXCEPT ![t] = to]
    /\ UNCHANGED <<connVars, netVars, rsock, chunk, rxInput, recording, otherVars>>

\* if not self.sock and not self.connect(): raise ConnectionError(...)
AttemptStart(t) ==
    /\ pc[t] = "attempt"
    /\ \/ /\ sock # 0
          /\ pc' = [pc EXCEPT ![t] = "send"]
          /\ UNCHANGED <<connVars, nextSock, peer, events, exc>>
       \/ /\ sock = 0
          /\ ConnectOk(t)
          /\ pc' = [pc EXCEPT ![t] = "send"]
          /\ UNCHANGED exc
       \/ /\ sock = 0
          /\ ConnectFail(t)
          /\ exc' = [exc EXCEPT ![t] = [type |-> "ConnectionError",
                                        kind |-> "not_connected", n |-> 0, id |-> 0]]
          /\ pc' = [pc EXCEPT ![t] = "raised"]
    /\ UNCHANGED <<closed, inbox, stream, wire, nextId, late, mode, command_type, attempt,
                   sends, lastWrite, rsock, chunk, ret, fails, budget, overlapped,
                   rxInput, recording, auxVars>>

\* self.sock.sendall(line); if pre_delay: time.sleep(pre_delay)
\* With self.sock None the attribute access raises; on a connection the
\* remote has reset or shut, sendall raises; otherwise the line reaches the
\* remote as write number nextId + 1.
Send(t) ==
    /\ pc[t] = "send"
    /\ IF sock = 0
       THEN /\ Fail(t, "attribute_error")
            /\ UNCHANGED <<sends, nextId, inbox, lastWrite, events>>
       ELSE /\ sends' = [sends EXCEPT ![t] = @ + 1]
            /\ IF peer[sock] # "open"
               THEN /\ Fail(t, "broken_pipe")
                    /\ events' = Logged(t, <<<<"send_failed", sock>>>>)
                    /\ UNCHANGED <<nextId, inbox, lastWrite>>
               ELSE /\ nextId' = nextId + 1
                    /\ inbox' = [inbox EXCEPT ![sock] = Append(@, nextId + 1)]
                    /\ lastWrite' = [lastWrite EXCEPT ![t] = nextId + 1]
                    /\ events' = Logged(t,
                          <<(<<"write", sock>>)>> \o
                          (IF PreDelay(command_type[t]) # 0
                           THEN <<(<<"sleep", PreDelay(command_type[t])>>)>> ELSE <<>>))
                    /\ pc' = [pc EXCEPT ![t] = "rx_enter"]
                    /\ UNCHANGED fails
    /\ UNCHANGED <<connVars, nextSock, closed, peer, stream, wire, late, mode, command_type,
                   attempt, rsock, chunk, ret, exc, budget, overlapped, rxInput, recording, auxVars>>

\* if response.get("status") == "error": raise Exception(message)
\* if post_delay: time.sleep(post_delay); return response.get("result", {})
CheckStatus(t) ==
    /\ pc[t] = "check"
    /\ IF ret[t].c # "obj"
       THEN Fail(t, "attribute_error") /\ UNCHANGED events
       ELSE IF IsErrorStatus(ret[t])
       THEN Fail(t, "remote_error") /\ UNCHANGED events
       ELSE /\ pc' = [pc EXCEPT ![t] = "returned"]
            /\ events' = Logged(t,
                  IF PostDelay(command_type[t]) # 0
                  THEN <<(<<"sleep", PostDelay(command_type[t])>>)>> ELSE <<>>)
            /\ UNCHANGED fails
    /\ UNCHANGED <<connVars, netVars, mode, command_type, attempt, sends, lastWrite,
                   rsock, chunk, ret, exc, budget, overlapped, rxInput, recording, auxVars>>

\* Mutant of ExceptDisconnect: the except branch logs and does not call
\* self.disconnect(), so the socket of the failed attempt stays in use.
ExceptDisconnectSkipped(t) ==
    /\ pc[t] = "except"
    /\ events' = Logged(t, <<(<<"log", attempt[t]>>)>>)
    /\ pc' = [pc EXCEPT ![t] = "except_clear"]
    /\ UNCHANGED <<connVars, netVars, mode, command_type, attempt, sends, lastWrite,
                   rsock, chunk, ret, exc, fails, budget, overlapped, rxInput, recording, auxVars>>

\* except Exception as e: logger.error(... command_type, attempt, e);
\* self.disconnect()
ExceptDisconnect(t) ==
    /\ pc[t] = "except"
    /\ closed' = ClosedAfterDisconnect(sock)
    /\ stream' = StreamAfterDisconnect(sock)
    /\ wire' = WireAfterDisconnect(sock)
    /\ inbox' = InboxAfterDisconnect(sock)
    /\ peer' = PeerAfterDisconnect(sock)
    /\ sock' = SockAfterDisconnect(sock)
    /\ DisconnectUdp
    /\ events' = Logged(t,
          <<(<<"log", attempt[t]>>)>> \o
          (IF sock # 0 THEN <<(<<"close", sock>>)>> ELSE <<>>))
    /\ pc' = [pc EXCEPT ![t] = "except_clear"]
    /\ UNCHANGED <<recv_buffer, nextSock, nextId, late, mode, command_type,
                   attempt, sends, lastWrite, rsock, chunk, ret, exc, fails, budget,
                   overlapped, rxInput, recording, toVars, getVars, lockVars, m4lVars,
                   restVars>>

\* self._recv_buffer = ""
ExceptClear(t) ==
    /\ pc[t] = "except_clear"
    /\ recv_buffer' = ClearedBuffer(recv_buffer)
    /\ events' = Logged(t, <<<<"clear", 0>>>>)
    /\ pc' = [pc EXCEPT ![t] = "except_decide"]
    /\ UNCHANGED <<sock, netVars, mode, command_type, attempt, sends, lastWrite, rsock,
                   chunk, ret, exc, fails, budget, overlapped, rxInput, recording, auxVars>>

\* if attempt < max_attempts: time.sleep(0.3) ... else: raise Exception(
\*     f"Command '{command_type}' failed after {max_attempts} attempts: {e}")
ExceptDecide(t) ==
    /\ pc[t] = "except_decide"
    /\ IF AttemptsRemain(attempt[t], MaxAttempts(command_type[t]))
       THEN /\ events' = Logged(t, <<<<"sleep", RetryBackoff>>>>)
            /\ pc' = [pc EXCEPT ![t] = "reconnect"]
            /\ UNCHANGED exc
       ELSE /\ exc' = [exc EXCEPT ![t] =
                  [type |-> "Exception", kind |-> fails[t][Len(fails[t])],
                   n |-> MaxAttempts(command_type[t]),
                   id |-> IF fails[t][Len(fails[t])] = "remote_error"
                          THEN ret[t].id ELSE 0]]
            /\ pc' = [pc EXCEPT ![t] = "raised"]
            /\ UNCHANGED events
    /\ UNCHANGED <<connVars, netVars, mode, command_type, attempt, sends, lastWrite,
                   rsock, chunk, ret, fails, budget, overlapped, rxInput, recording, auxVars>>

\* if not self.connect(): raise ConnectionError("Failed to reconnect to Ableton")
\* and the for loop's next iteration.  connect() returns True at once when
\* another caller has set self.sock in the meantime.
Reconnect(t) ==
    /\ pc[t] = "reconnect"
    /\ \/ /\ IF sock # 0
             THEN UNCHANGED <<connVars, nextSock, peer, events>>
             ELSE ConnectOk(t)
          /\ attempt' = [attempt EXCEPT ![t] = @ + 1]
          /\ pc' = [pc EXCEPT ![t] = "attempt"]
          /\ UNCHANGED exc
       \/ /\ sock = 0
          /\ ConnectFail(t)
          /\ exc' = [exc EXCEPT ![t] = [type |-> "ConnectionError",
                                        kind |-> "reconnect_failed", n |-> 0, id |-> 0]]
          /\ pc' = [pc EXCEPT ![t] = "raised"]
          /\ UNCHANGED attempt
    /\ UNCHANGED <<closed, inbox, stream, wire, nextId, late, mode, command_type, sends,
                   lastWrite, rsock, chunk, ret, fails, budget, overlapped, rxInput, recording, auxVars>>

(***************************************************************************)
(* AbletonConnection.receive_full_response                                 *)
(***************************************************************************)
\* An exception leaves receive_full_response: inside send_command it is
\* caught by the except branch, a direct caller sees it.
RxRaise(t, kind) ==
    IF mode[t] = "cmd"
    THEN Fail(t, kind) /\ UNCHANGED exc
    ELSE /\ pc' = [pc EXCEPT ![t] = "rx_raised"]
         /\ exc' = [exc EXCEPT ![t] = [type |-> kind, kind |-> kind, n |-> 0, id |-> 0]]
         /\ UNCHANGED fails

\* return result
RxReturn(t, v) ==
    /\ ret' = [ret EXCEPT ![t] = v]
    /\ pc' = [pc EXCEPT ![t] = IF mode[t] = "cmd" THEN "check" ELSE "rx_returned"]

\* if timeout is None: timeout = 15.0 if is_modifying else 10.0
\* self.receive_full_response(self.sock, timeout=timeout): the argument is
\* read from self.sock; sock.settimeout(timeout) raises on None.  A direct
\* caller leaves the parameter timeout at its default.
RxEnter(t) ==
    /\ pc[t] = "rx_enter"
    /\ rsock' = [rsock EXCEPT ![t] = sock]
    /\ LET tmo == IF mode[t] = "cmd"
                  THEN EffectiveTimeout(timeout[t], command_type[t])
                  ELSE ReceiveDefaultTimeout
       IN  /\ timeout' = [timeout EXCEPT ![t] = IF mode[t] = "cmd" THEN tmo ELSE @]
           /\ IF sock = 0
              THEN RxRaise(t, "attribute_error") /\ UNCHANGED events
              ELSE /\ pc' = [pc EXCEPT ![t] = "rx_test"]
                   /\ events' = Logged(t, <<(<<"settimeout", tmo>>)>>)
                   /\ UNCHANGED <<fails, exc>>
    /\ UNCHANGED <<connVars, netVars, mode, command_type, attempt, sends, lastWrite,
                   chunk, ret, budget, overlapped, rxInput, recording, timeoutArg,
                   otherVars>>

\* if '\n' in self._recv_buffer:
RxTest(t) ==
    /\ pc[t] = "rx_test"
    /\ pc' = [pc EXCEPT ![t] = IF HasNL(recv_buffer) THEN "rx_split" ELSE "rx_recv"]
    /\ UNCHANGED <<connVars, netVars, mode, command_type, attempt, sends, lastWrite,
                   rsock, chunk, ret, exc, fails, events, budget, overlapped, rxInput, recording, auxVars>>

\* line, self._recv_buffer = self._recv_buffer.split('\n', 1)
\* line = line.strip(); if line: return json.loads(line)
\* A blank line falls through to sock.recv, not back to the test.
RxSplit(t) ==
    /\ pc[t] = "rx_split"
    /\ IF ~HasNL(recv_buffer)
       THEN /\ RxRaise(t, "value_error")
            /\ UNCHANGED <<recv_buffer, ret>>
       ELSE /\ recv_buffer' = SplitRest(recv_buffer)
            /\ LET line == Strip(SplitLine(recv_buffer))
               IN  IF line = <<>>
                   THEN /\ pc' = [pc EXCEPT ![t] = "rx_recv"]
                        /\ UNCHANGED <<ret, exc, fails>>
                   ELSE IF IsJson(line)
                   THEN /\ RxReturn(t, JsonLoads(line))
                        /\ UNCHANGED <<exc, fails>>
                   ELSE /\ RxRaise(t, "json_decode")
                        /\ UNCHANGED ret
    /\ UNCHANGED <<sock, netVars, mode, command_type, attempt, sends, lastWrite,
                   rsock, chunk, events, budget, overlapped, rxInput, recording, auxVars>>

\* chunk = sock.recv(buffer_size) returns some of the bytes that have
\* arrived: any non-empty prefix of them.
RxRecvData(t) ==
    /\ pc[t] = "rx_recv"
    /\ rsock[t] \notin closed
    /\ \E k \in 1..Len(stream[rsock[t]]) :
          /\ chunk' = [chunk EXCEPT ![t] = SubSeq(stream[rsock[t]], 1, k)]
          /\ stream' = [stream EXCEPT ![rsock[t]] =
                            SubSeq(@, k + 1, Len(@))]
    /\ pc' = [pc EXCEPT ![t] = "rx_append"]
    /\ UNCHANGED <<connVars, nextSock, closed, peer, inbox, wire, nextId, late, mode,
                   command_type, attempt, sends, lastWrite, rsock, ret, exc, fails,
                   events, budget, overlapped, rxInput, recording, auxVars>>

\* sock.recv raises socket.timeout: nothing arrived within the timeout.
RxRecvTimeout(t) ==
    /\ pc[t] = "rx_recv"
    /\ rsock[t] \notin closed
    /\ stream[rsock[t]] = <<>>
    /\ RxRaise(t, "timeout")
    /\ events' = Logged(t, <<<<"timeout", rsock[t]>>>>)
    /\ UNCHANGED <<connVars, netVars, mode, command_type, attempt, sends, lastWrite,
                   rsock, chunk, ret, budget, overlapped, rxInput, recording, auxVars>>

\* sock.recv on a connection the remote has ended: ConnectionResetError, or
\* b"" and raise Exception("Connection closed before receiving any data").
RxRecvClosed(t) ==
    /\ pc[t] = "rx_recv"
    /\ rsock[t] \notin closed
    /\ stream[rsock[t]] = <<>>
    /\ peer[rsock[t]] \in {"reset", "shut"}
    /\ RxRaise(t, IF peer[rsock[t]] = "reset" THEN "reset" ELSE "closed")
    /\ events' = Logged(t, <<<<"recv_failed", rsock[t]>>>>)
    /\ UNCHANGED <<connVars, netVars, mode, command_type, attempt, sends, lastWrite,
                   rsock, chunk, ret, budget, overlapped, rxInput, recording, auxVars>>

\* self._recv_buffer += chunk.decode('utf-8')   (chunk is dead afterwards)
RxAppend(t) ==
    /\ pc[t] = "rx_append"
    /\ IF Decode(chunk[t]).ok
       THEN /\ recv_buffer' = recv_buffer \o Decode(chunk[t]).chars
            /\ pc' = [pc EXCEPT ![t] = "rx_test"]
            /\ UNCHANGED <<exc, fails>>
       ELSE /\ RxRaise(t, "unicode_decode")
            /\ UNCHANGED recv_buffer
    /\ chunk' = [chunk EXCEPT ![t] = <<>>]
    /\ UNCHANGED <<sock, netVars, mode, command_type, attempt, sends, lastWrite,
                   rsock, ret, events, budget, overlapped, rxInput, recording, auxVars>>

(***************************************************************************)
(* The Remote Script: one response line per command line, on the           *)
(* connection the command arrived on.                                      *)
(***************************************************************************)
ResponseKinds == {"success", "error", "malformed"}

ResponseLine(id, kind) ==
    IF kind = "malformed" THEN <<GARBAGE, NL>> ELSE <<Obj(id, kind), NL>>

\* The remote answers the oldest unanswered command of connection s; the
\* first n bytes of the line arrive at once, the others stay on the wire.
\* The answer is late when no caller is waiting for it any more; it is lost
\* when the client has closed the socket.
RemoteRespond(s, kind, n) ==
    /\ s \in 1..nextSock
    /\ peer[s] = "open"
    /\ inbox[s] # <<>>
    /\ wire[s] = <<>>
    /\ inbox' = [inbox EXCEPT ![s] = Tail(@)]
    /\ LET line == ResponseLine(Head(inbox[s]), kind)
       IN  /\ n \in 1..Len(line)
           /\ stream' = IF s \in closed THEN stream
                        ELSE [stream EXCEPT ![s] = @ \o SubSeq(line, 1, n)]
           /\ wire' = IF s \in closed THEN wire
                      ELSE [wire EXCEPT ![s] = SubSeq(line, n + 1, Len(line))]
    /\ late' = IF ~recording
                  \/ \E t \in Threads : pc[t] \in RxPcs /\ lastWrite[t] = Head(inbox[s])
               THEN late ELSE Head(inbox[s])
    /\ UNCHANGED <<connVars, nextSock, closed, peer, nextId, callVars>>

\* The bytes on the wire of connection s arrive.
Deliver(s) ==
    /\ s \in 1..nextSock
    /\ wire[s] # <<>>
    /\ stream' = [stream EXCEPT ![s] = @ \o wire[s]]
    /\ wire' = [wire EXCEPT ![s] = <<>>]
    /\ UNCHANGED <<connVars, nextSock, closed, peer, inbox, nextId, late, callVars>>

\* The remote resets the connection, or shuts it down in an orderly way; it
\* answers nothing more on it, and what it had sent still arrives.
RemoteEnd(s, how) ==
    /\ s \in 1..nextSock
    /\ s \notin closed
    /\ peer[s] = "open"
    /\ peer' = [peer EXCEPT ![s] = how]
    /\ inbox' = [inbox EXCEPT ![s] = <<>>]
    /\ UNCHANGED <<connVars, nextSock, closed, stream, wire, nextId, late, callVars>>

(***************************************************************************)
(* One caller on one connection                                            *)
(***************************************************************************)
SendCommandStep(t) ==
    \/ AttemptStart(t)
    \/ Send(t)
    \/ CheckStatus(t)
    \/ ExceptDisconnect(t)
    \/ ExceptClear(t)
    \/ ExceptDecide(t)
    \/ Reconnect(t)

ReceiveStep(t) ==
    \/ RxEnter(t)
    \/ RxTest(t)
    \/ RxSplit(t)
    \/ RxRecvData(t)
    \/ RxRecvTimeout(t)
    \/ RxAppend(t)

RemoteStep ==
    \/ \E s \in Socks, kind \in ResponseKinds, n \in 1..2 : RemoteRespond(s, kind, n)
    \/ \E s \in Socks : Deliver(s)
    \/ \E s \in Socks, how \in {"reset", "shut"} : RemoteEnd(s, how)

Next ==
    \/ \E c \in Commands : Call(1, c, 0)
    \/ SendCommandStep(1)
    \/ ReceiveStep(1)
    \/ RxRecvClosed(1)
    \/ RemoteStep

Spec == Init /\ [][Next]_vars

(***************************************************************************)
(* receive_full_response on its own: the remote's text is on the wire and  *)
(* recv hands it over in any pieces.                                       *)
(***************************************************************************)
TextChars == {NL, SP, QUOTE, E2, Obj(1, "success")}
Texts == UNION { [1..n -> TextChars] : n \in 0..MaxText }

InitRecv ==
    /\ sock = 1
    /\ recv_buffer = <<>>
    /\ nextSock = 1
    /\ closed = {}
    /\ peer = [s \in Socks |-> IF s = 1 THEN "open" ELSE "none"]
    /\ inbox = [s \in Socks |-> <<>>]
    /\ \E text \in Texts :
          /\ stream = [s \in Socks |-> IF s = 1 THEN Encode(text) ELSE <<>>]
          /\ rxInput = text
    /\ wire = [s \in Socks |-> <<>>]
    /\ nextId = 0
    /\ late = 0
    /\ pc = [t \in Threads |-> IF t = 1 THEN "rx_enter" ELSE "idle"]
    /\ mode = [t \in Threads |-> IF t = 1 THEN "direct" ELSE "cmd"]
    /\ command_type = [t \in Threads |-> "get_session_info"]
    /\ attempt = [t \in Threads |-> 0]
    /\ sends = [t \in Threads |-> 0]
    /\ lastWrite = [t \in Threads |-> 0]
    /\ rsock = [t \in Threads |-> 0]
    /\ chunk = [t \in Threads |-> <<>>]
    /\ ret = [t \in Threads |-> NoValue]
    /\ exc = [t \in Threads |-> NoExc]
    /\ fails = [t \in Threads |-> <<>>]
    /\ events = [t \in Threads |-> <<>>]
    /\ overlapped = [t \in Threads |-> FALSE]
    /\ budget = [t \in Threads |-> 0]
    /\ recording = TRUE
    /\ timeoutArg = [t \in Threads |-> 0]
    /\ timeout = [t \in Threads |-> 0]
    /\ InitHeld
    /\ InitNoServer
    /\ InitNoM4L
    /\ InitNoExt

\* The characters received or still on the wire that no call has consumed.
Unread == recv_buffer \o Decode(stream[1]).chars

\* The next receive_full_response(self.sock) after one that returned.
DirectCall(t) ==
    /\ pc[t] = "rx_returned"
    /\ Unread # <<>>
    /\ pc' = [pc EXCEPT ![t] = "rx_enter"]
    /\ rxInput' = Unread
    /\ ret' = [ret EXCEPT ![t] = NoValue]
    /\ UNCHANGED <<connVars, netVars, mode, command_type, attempt, sends, lastWrite,
                   rsock, chunk, exc, fails, events, budget, overlapped, recording, auxVars>>

NextRecv ==
    \/ ReceiveStep(1)
    \/ RxRecvClosed(1)
    \/ DirectCall(1)
    \/ \E how \in {"reset", "shut"} : RemoteEnd(1, how)

SpecRecv == InitRecv /\ [][NextRecv]_vars

(***************************************************************************)
(* Two callers (tool handlers on worker threads) on the one shared         *)
(* connection.  Each step above is one access to self.sock, to             *)
(* self._recv_buffer or to the socket; connect() and disconnect() are      *)
(* taken as one step each.                                                 *)
(***************************************************************************)
InitTwo ==
    /\ InitChannel
    /\ InitCallers
    /\ InitHeld
    /\ InitNoServer
    /\ InitNoM4L
    /\ InitNoExt
    /\ budget = [t \in Threads |-> 1]
    /\ recording = FALSE

\* sock.recv on a socket object another caller has closed.
RxRecvBadFd(t) ==
    /\ pc[t] = "rx_recv"
    /\ rsock[t] \in closed
    /\ RxRaise(t, "os_error")
    /\ UNCHANGED <<connVars, netVars, mode, command_type, attempt, sends, lastWrite,
                   rsock, chunk, ret, events, budget, overlapped, rxInput, recording, auxVars>>

\* The callers' commands: one that is retried and one that is not.  The
\* remote answers every command it has received and does not end the connection;
\* the only failure it causes is a slow answer.
CommandsTwo == {"get_session_info", "create_midi_track"}

NextTwo ==
    \/ \E t \in Threads, c \in CommandsTwo : Call(t, c, 0)
    \/ \E t \in Threads : SendCommandStep(t)
    \/ \E t \in Threads : ReceiveStep(t)
    \/ \E t \in Threads : RxRecvBadFd(t)
    \/ \E s \in Socks : RemoteRespond(s, "success", 2)

SpecTwo == InitTwo /\ [][NextTwo]_vars

(***************************************************************************)
(* get_ableton_connection: one caller, state.ableton_connection            *)
(***************************************************************************)
MaxGets == 2   \* get_ableton_connection calls of the caller

\* max_attempts = 3 and time.sleep(1.0), in milliseconds
GetMaxAttempts == 3
GetRetryDelay == 1000

GetEndPcs == {"idle", "g_returned", "g_raised"}

InitGet ==
    /\ InitChannel
    /\ InitCallers
    /\ InitNoServer
    /\ InitNoM4L
    /\ InitNoExt
    /\ budget = [t \in Threads |-> IF t = 1 THEN (GetMaxAttempts + 1) * MaxGets ELSE 0]
    /\ recording = FALSE
    /\ conn = 0
    /\ nextConn = 0
    /\ gpc = "idle"
    /\ gattempt = 0
    /\ gret = 0
    /\ g0 = AtCall
    /\ gcalls = 0
    /\ gprobe = "none"
    /\ gsleeps = 0
    /\ connected_event = FALSE

\* state.ableton_connection.disconnect() on the instance held in
\* state.ableton_connection, whose fields are sock and recv_buffer.
DisconnectHeld ==
    /\ closed' = ClosedAfterDisconnect(sock)
    /\ stream' = StreamAfterDisconnect(sock)
    /\ wire' = WireAfterDisconnect(sock)
    /\ inbox' = InboxAfterDisconnect(sock)
    /\ peer' = PeerAfterDisconnect(sock)
    /\ sock' = SockAfterDisconnect(sock)

\* get_ableton_connection(): if state.ableton_connection is not None: ...
GetCall ==
    /\ gpc \in GetEndPcs
    /\ ~InCall(1)
    /\ gcalls < MaxGets
    /\ gcalls' = gcalls + 1
    /\ gpc' = IF conn # 0 THEN "probe" ELSE "create"
    /\ gattempt' = 1
    /\ gret' = 0
    /\ g0' = AtCall
    /\ gprobe' = "none"
    /\ gsleeps' = 0
    /\ pc' = [pc EXCEPT ![1] = "idle"]
    /\ UNCHANGED <<lockVars, m4lVars, extVars, connVars, netVars, mode, command_type, attempt, sends, lastWrite,
                   rsock, chunk, ret, exc, fails, events, budget, overlapped, rxInput,
                   recording, toVars, conn, nextConn, connected_event>>

\* Mutant of ProbeCanSucceed: the probe does not look at the socket.
ProbeAlwaysSucceeds(s) == TRUE

\* sock is not None and getpeername() can answer
ProbeCanSucceed(s) == IF s = 0 THEN FALSE ELSE peer[s] \in {"open", "reset", "shut"}

\* if sock is None: raise ConnectionError; sock.settimeout(1.0);
\* sock.getpeername(); return state.ableton_connection.  getpeername raises
\* on a socket that is not connected; on a connection the remote has ended
\* it raises or answers, as the platform has it.
GetProbe ==
    /\ gpc = "probe"
    /\ \/ /\ ProbeCanSucceed(sock)
          /\ gret' = conn
          /\ gpc' = "g_returned"
          /\ gprobe' = "ok"
       \/ /\ IF sock = 0 THEN TRUE ELSE peer[sock] # "open"
          /\ gpc' = "discard"
          /\ gprobe' = "failed"
          /\ UNCHANGED gret
    /\ UNCHANGED <<lockVars, m4lVars, extVars, connVars, netVars, pc, mode, command_type, attempt, sends, lastWrite,
                   rsock, chunk, ret, exc, fails, events, budget, overlapped, rxInput,
                   recording, toVars, conn, nextConn, gattempt, g0, gcalls,
                   gsleeps, connected_event>>

\* Mutant of GetDiscard: the instance is dropped without disconnect().
GetDiscardWithoutDisconnect ==
    /\ gpc = "discard"
    /\ conn' = 0
    /\ gpc' = "create"
    /\ UNCHANGED <<lockVars, m4lVars, extVars, connVars, netVars, pc, mode, command_type, attempt, sends,
                   lastWrite, rsock, chunk, ret, exc, fails, events, budget, overlapped,
                   rxInput, recording, toVars, nextConn, gattempt, gret, g0, gcalls,
                   gprobe, gsleeps, connected_event>>

\* except Exception: state.ableton_connection.disconnect();
\* state.ableton_connection = None
GetDiscard ==
    /\ gpc = "discard"
    /\ DisconnectHeld
    /\ DisconnectUdp
    /\ recv_buffer' = <<>>
    /\ conn' = 0
    /\ gpc' = "create"
    /\ UNCHANGED <<lockVars, m4lVars, restVars, nextSock, nextId, late, pc, mode, command_type, attempt, sends,
                   lastWrite, rsock, chunk, ret, exc, fails, events, budget, overlapped,
                   rxInput, recording, toVars, nextConn, gattempt, gret, g0, gcalls,
                   gprobe, gsleeps, connected_event>>

\* state.ableton_connection = AbletonConnection(...);
\* if state.ableton_connection.connect(): ... else: state.ableton_connection = None
GetCreate ==
    /\ gpc = "create"
    /\ nextConn' = nextConn + 1
    /\ \/ /\ ConnectOk(1)
          /\ conn' = nextConn + 1
          /\ gpc' = "validate"
       \/ /\ ConnectFail(1)
          /\ conn' = 0
          /\ gpc' = "wait"
    /\ UNCHANGED <<lockVars, m4lVars, extVars, closed, inbox, stream, wire, nextId, late, pc, mode, command_type,
                   attempt, sends, lastWrite, rsock, chunk, ret, exc, fails, budget,
                   overlapped, rxInput, recording, toVars, gattempt, gret, g0,
                   gcalls, gprobe, gsleeps, connected_event>>

\* state.ableton_connection.send_command("get_session_info")
GetValidate ==
    /\ gpc = "validate"
    /\ pc[1] = "idle"
    /\ Call(1, "get_session_info", 0)

\* state.ableton_connected_event.set(); return state.ableton_connection
GetValidated ==
    /\ gpc = "validate"
    /\ pc[1] = "returned"
    /\ connected_event' = TRUE
    /\ gret' = conn
    /\ gpc' = "g_returned"
    /\ pc' = [pc EXCEPT ![1] = "idle"]
    /\ UNCHANGED <<lockVars, m4lVars, extVars, connVars, netVars, mode, command_type, attempt, sends, lastWrite,
                   rsock, chunk, ret, exc, fails, events, budget, overlapped, rxInput,
                   recording, toVars, conn, nextConn, gattempt, g0, gcalls,
                   gprobe, gsleeps>>

\* Mutant of GetValidationFailed: the instance is returned although its
\* validation raised.
GetValidationIgnored ==
    /\ gpc = "validate"
    /\ pc[1] = "raised"
    /\ connected_event' = TRUE
    /\ gret' = conn
    /\ gpc' = "g_returned"
    /\ pc' = [pc EXCEPT ![1] = "idle"]
    /\ UNCHANGED <<lockVars, m4lVars, extVars, connVars, netVars, mode, command_type, attempt, sends, lastWrite,
                   rsock, chunk, ret, exc, fails, events, budget, overlapped, rxInput,
                   recording, toVars, conn, nextConn, gattempt, g0, gcalls,
                   gprobe, gsleeps>>

\* except Exception: state.ableton_connection.disconnect();
\* state.ableton_connection = None
GetValidationFailed ==
    /\ gpc = "validate"
    /\ pc[1] = "raised"
    /\ DisconnectHeld
    /\ DisconnectUdp
    /\ recv_buffer' = <<>>
    /\ conn' = 0
    /\ gpc' = "wait"
    /\ pc' = [pc EXCEPT ![1] = "idle"]
    /\ UNCHANGED <<lockVars, m4lVars, restVars, nextSock, nextId, late, mode, command_type, attempt, sends,
                   lastWrite, rsock, chunk, ret, exc, fails, events, budget, overlapped,
                   rxInput, recording, toVars, nextConn, gattempt, gret, g0, gcalls,
                   gprobe, gsleeps, connected_event>>

\* if attempt < max_attempts: time.sleep(1.0)  and the next iteration; after
\* the loop: raise Exception("Could not connect to Ableton. ...")
GetWait ==
    /\ gpc = "wait"
    /\ IF gattempt < GetMaxAttempts
       THEN /\ gattempt' = gattempt + 1
            /\ gpc' = "create"
            /\ gsleeps' = gsleeps + 1
       ELSE /\ gpc' = "g_raised"
            /\ UNCHANGED <<gattempt, gsleeps>>
    /\ UNCHANGED <<lockVars, m4lVars, extVars, connVars, netVars, pc, mode, command_type, attempt, sends, lastWrite,
                   rsock, chunk, ret, exc, fails, events, budget, overlapped, rxInput,
                   recording, toVars, conn, nextConn, gret, g0, gcalls,
                   gprobe, connected_event>>

\* A tool uses the connection get_ableton_connection returned: one
\* send_command on it.
UseCall ==
    /\ gpc = "g_returned"
    /\ pc[1] = "idle"
    /\ Call(1, "get_session_info", 0)

GetStep ==
    \/ GetCall
    \/ GetProbe
    \/ GetDiscard
    \/ GetCreate
    \/ GetValidate
    \/ GetValidated
    \/ GetValidationFailed
    \/ GetWait

NextGet ==
    \/ GetStep
    \/ UseCall
    \/ SendCommandStep(1)
    \/ ReceiveStep(1)
    \/ RxRecvClosed(1)
    \/ \E s \in Socks, kind \in {"success", "error"} : RemoteRespond(s, kind, 2)
    \/ \E s \in Socks : RemoteEnd(s, "reset")

SpecGet == InitGet /\ [][NextGet]_vars

(***************************************************************************)
(* server_lifespan: two server processes and the singleton lock port.      *)
(* Each process has its own module state; the port is the one thing they   *)
(* share.                                                                  *)
(***************************************************************************)
MaxStarts == 2   \* starts of one server process

InitLock ==
    /\ InitChannel
    /\ InitCallers
    /\ InitHeld
    /\ InitNoServer
    /\ InitNoM4L
    /\ InitNoExt
    /\ budget = [t \in Threads |-> 0]
    /\ recording = FALSE

chanVars == <<connVars, netVars, pc, mode, command_type, attempt, sends, lastWrite,
              rsock, chunk, ret, exc, fails, events, budget, overlapped, rxInput,
              recording, toVars, getVars, m4lVars, extVars>>

\* A server process is started: fresh module state.
ServerStart(i) ==
    /\ ipc[i] \in {"off", "exited"}
    /\ starts[i] < MaxStarts
    /\ starts' = [starts EXCEPT ![i] = @ + 1]
    /\ ipc' = [ipc EXCEPT ![i] = "acquire"]
    /\ lock_sock' = [lock_sock EXCEPT ![i] = 0]
    /\ exitStatus' = [exitStatus EXCEPT ![i] = -1]
    /\ tried' = [tried EXCEPT ![i] = FALSE]
    /\ held' = [held EXCEPT ![i] = FALSE]
    /\ UNCHANGED <<lockHolder, chanVars>>

\* sock.bind(("127.0.0.1", SINGLETON_LOCK_PORT)) succeeds when no socket is
\* bound to the port.
BindSucceeds(i) == lockHolder = 0

\* state.singleton_lock_sock = _acquire_singleton_lock(); on RuntimeError:
\* sys.exit(1), which unwinds through the finally block.
Acquire(i) ==
    /\ ipc[i] = "acquire"
    /\ IF BindSucceeds(i)
       THEN /\ lockHolder' = i
            /\ lock_sock' = [lock_sock EXCEPT ![i] = 1]
            /\ ipc' = [ipc EXCEPT ![i] = "connect"]
            /\ UNCHANGED exitStatus
       ELSE /\ exitStatus' = [exitStatus EXCEPT ![i] = 1]
            /\ ipc' = [ipc EXCEPT ![i] = "shutdown"]
            /\ UNCHANGED <<lockHolder, lock_sock>>
    /\ UNCHANGED <<tried, held, starts, chanVars>>

\* try: ableton = get_ableton_connection() except Exception: log; then the
\* background threads, the dashboard, the templates, and yield {}.
ConnectOnStartup(i) ==
    /\ ipc[i] = "connect"
    /\ tried' = [tried EXCEPT ![i] = TRUE]
    /\ \E ok \in BOOLEAN : held' = [held EXCEPT ![i] = ok]
    /\ ipc' = [ipc EXCEPT ![i] = "running"]
    /\ UNCHANGED <<lockHolder, lock_sock, exitStatus, starts, chanVars>>

\* The server is stopped: the context manager resumes into finally.
ServerStop(i) ==
    /\ ipc[i] = "running"
    /\ exitStatus' = [exitStatus EXCEPT ![i] = 0]
    /\ ipc' = [ipc EXCEPT ![i] = "shutdown"]
    /\ UNCHANGED <<lockHolder, lock_sock, tried, held, starts, chanVars>>

\* Mutant of HolderAfterRelease: releasing frees the port whoever holds it.
HolderFreed(i, ls) == 0

\* _release_singleton_lock(sock): if sock: sock.close().  Closing the bound
\* socket frees the port.
HolderAfterRelease(i, ls) == IF ls # 0 /\ lockHolder = i THEN 0 ELSE lockHolder

\* finally: stop_dashboard_server(); if state.ableton_connection:
\* disconnect, = None; ...; _release_singleton_lock(state.singleton_lock_sock);
\* state.singleton_lock_sock = None
Shutdown(i) ==
    /\ ipc[i] = "shutdown"
    /\ held' = [held EXCEPT ![i] = FALSE]
    /\ lockHolder' = HolderAfterRelease(i, lock_sock[i])
    /\ lock_sock' = [lock_sock EXCEPT ![i] = 0]
    /\ ipc' = [ipc EXCEPT ![i] = "exited"]
    /\ UNCHANGED <<exitStatus, tried, starts, chanVars>>

NextLock ==
    \/ \E i \in Servers : ServerStart(i)
    \/ \E i \in Servers : Acquire(i)
    \/ \E i \in Servers : ConnectOnStartup(i)
    \/ \E i \in Servers : ServerStop(i)
    \/ \E i \in Servers : Shutdown(i)

SpecLock == InitLock /\ [][NextLock]_vars

(***************************************************************************)
(* get_m4l_status and the ping cache, one caller                           *)
(***************************************************************************)
MaxTime == 7
MaxChecks == 3

InitM4L ==
    /\ InitChannel
    /\ InitCallers
    /\ InitHeld
    /\ InitNoServer
    /\ InitNoM4L
    /\ InitNoExt
    /\ budget = [t \in Threads |-> 0]
    /\ recording = FALSE

sideVars == <<connVars, netVars, pc, mode, command_type, attempt, sends, lastWrite,
              rsock, chunk, ret, exc, fails, events, budget, overlapped, rxInput,
              recording, toVars, getVars, lockVars, extVars>>

\* One second passes.
Tick ==
    /\ clock < M4L_PING_CACHE_TTL + MaxTime
    /\ clock' = clock + 1
    /\ UNCHANGED <<m4l_ping_cache, m4l_connection, auto, autoAt, mpc, mnow, checks, sideVars>>

\* The auto-connect thread binds the sockets and publishes the connection.
M4LConnect ==
    /\ m4l_connection = "none"
    /\ m4l_connection' = "connected"
    /\ auto' = "trying"
    /\ UNCHANGED <<clock, m4l_ping_cache, autoAt, mpc, mnow, checks, sideVars>>

\* One of the auto-connect thread's pings is answered: it primes the cache.
AutoConnectPinged ==
    /\ auto = "trying"
    /\ m4l_ping_cache' = [result |-> TRUE, timestamp |-> clock]
    /\ auto' = "done"
    /\ autoAt' = Len(checks)
    /\ UNCHANGED <<clock, m4l_connection, mpc, mnow, checks, sideVars>>

\* None of its attempts is answered.
AutoConnectGaveUp ==
    /\ auto = "trying"
    /\ auto' = "done"
    /\ UNCHANGED <<clock, m4l_ping_cache, m4l_connection, autoAt, mpc, mnow, checks, sideVars>>

\* Mutant of M4LDisconnect: disconnecting clears the ping cache.
M4LDisconnectClears ==
    /\ m4l_connection = "connected"
    /\ m4l_connection' = "disconnected"
    /\ m4l_ping_cache' = [result |-> FALSE, timestamp |-> 0]
    /\ UNCHANGED <<clock, auto, autoAt, mpc, mnow, checks, sideVars>>

\* Shutdown disconnects the M4L connection.
M4LDisconnect ==
    /\ m4l_connection = "connected"
    /\ m4l_connection' = "disconnected"
    /\ UNCHANGED <<clock, m4l_ping_cache, auto, autoAt, mpc, mnow, checks, sideVars>>

\* get_m4l_connection() finds the connection disconnected and connects it
\* again.
M4LReconnect ==
    /\ m4l_connection = "disconnected"
    /\ m4l_connection' = "connected"
    /\ UNCHANGED <<clock, m4l_ping_cache, auto, autoAt, mpc, mnow, checks, sideVars>>

SocketsReady == m4l_connection = "connected"

CacheFreshShorter(now) == now - m4l_ping_cache.timestamp < M4L_PING_CACHE_TTL - 1

CacheFresh(now) == now - m4l_ping_cache.timestamp < M4L_PING_CACHE_TTL

Checked(now, ready, pinged, result) ==
    Append(checks, [now |-> now, ready |-> ready, pinged |-> pinged, result |-> result])

\* get_m4l_status without ready sockets: (False, False).
StatusNotReady ==
    /\ mpc = "idle"
    /\ Len(checks) < MaxChecks
    /\ ~SocketsReady
    /\ checks' = Checked(clock, FALSE, FALSE, FALSE)
    /\ UNCHANGED <<clock, m4l_ping_cache, m4l_connection, auto, autoAt, mpc, mnow, sideVars>>

\* get_m4l_status within the TTL of the cache entry: the cached result.
StatusCached ==
    /\ mpc = "idle"
    /\ Len(checks) < MaxChecks
    /\ SocketsReady
    /\ CacheFresh(clock)
    /\ mnow' = clock
    /\ checks' = Checked(clock, TRUE, FALSE, m4l_ping_cache.result)
    /\ UNCHANGED <<clock, m4l_ping_cache, m4l_connection, auto, autoAt, mpc, sideVars>>

\* get_m4l_status with a cache entry of TTL or older: it calls ping().
StatusPing ==
    /\ mpc = "idle"
    /\ Len(checks) < MaxChecks
    /\ SocketsReady
    /\ ~CacheFresh(clock)
    /\ mnow' = clock
    /\ mpc' = "ping"
    /\ UNCHANGED <<clock, m4l_ping_cache, m4l_connection, auto, autoAt, checks, sideVars>>

\* ping() returned r, or raised (r is False): the result is stored under the
\* time read before the ping.
PingReturns(r) ==
    /\ mpc = "ping"
    /\ m4l_ping_cache' = [result |-> r, timestamp |-> mnow]
    /\ checks' = Checked(mnow, TRUE, TRUE, r)
    /\ mpc' = "idle"
    /\ UNCHANGED <<clock, m4l_connection, auto, autoAt, mnow, sideVars>>

NextM4L ==
    \/ Tick
    \/ M4LConnect
    \/ AutoConnectPinged
    \/ AutoConnectGaveUp
    \/ M4LDisconnect
    \/ M4LReconnect
    \/ StatusNotReady
    \/ StatusCached
    \/ StatusPing
    \/ \E r \in BOOLEAN : PingReturns(r)

SpecM4L == InitM4L /\ [][NextM4L]_vars

(***************************************************************************)
(* AbletonConnection.send_udp_command, between the calls of send_command   *)
(***************************************************************************)
MaxDatagrams == 2

\* The command types tools/devices.py sends over UDP.
UdpCommands == {"set_device_parameter", "batch_set_device_parameters"}

\* Mutant of Transmit: the datagram is sent a second time.
TransmitTwice(ds, d) == ds \o <<d, d>>

\* sock.sendto(payload, (self.host, self._udp_port))
Transmit(ds, d) == Append(ds, d)

\* send_udp_command(command_type): _ensure_udp_socket() creates the UDP
\* socket when there is none; sendto hands one datagram to the network, or
\* raises OSError, which leaves the call.
UdpSend(c, ok) ==
    /\ ~InCall(1)
    /\ udp_last.calls < MaxDatagrams
    /\ LET u == IF udp_sock = 0 THEN nextUdp + 1 ELSE udp_sock
       IN  /\ udp_sock' = u
           /\ nextUdp' = IF udp_sock = 0 THEN nextUdp + 1 ELSE nextUdp
           /\ datagrams' = IF ok THEN Transmit(datagrams, [sock |-> u, type |-> c])
                           ELSE datagrams
    /\ udp_last' = [calls |-> udp_last.calls + 1, type |-> c, sock |-> sock,
                    outcome |-> IF ok THEN "returned" ELSE "raised"]
    /\ UNCHANGED <<connVars, netVars, pc, mode, command_type, attempt, sends, lastWrite,
                   rsock, chunk, ret, exc, fails, events, budget, overlapped, rxInput,
                   recording, toVars, getVars, lockVars, m4lVars, udp_closed, restVars>>

NextUdp ==
    \/ \E c \in UdpCommands, ok \in BOOLEAN : UdpSend(c, ok)
    \/ Call(1, "get_session_info", 0)
    \/ SendCommandStep(1)
    \/ ReceiveStep(1)
    \/ RxRecvClosed(1)
    \/ RemoteStep

\* One connection, one caller that makes one send_command call and sends
\* datagrams before and after it.
InitUdp ==
    /\ InitChannel
    /\ InitCallers
    /\ InitHeld
    /\ InitNoServer
    /\ InitNoM4L
    /\ InitNoExt
    /\ budget = [t \in Threads |-> IF t = 1 THEN 1 ELSE 0]
    /\ recording = FALSE

SpecUdp == InitUdp /\ [][NextUdp]_vars

(***************************************************************************)
(* populate_browser_cache (MCP_Server/cache/browser.py).  In this          *)
(* specification sock and recv_buffer are the fields of the connection the *)
(* scan works on; the shared state.ableton_connection is instance 1, which *)
(* other tools use on socket shared_sock while the scan runs.              *)
(***************************************************************************)
MaxShared == 1

\* timeout=60.0 of the scan's send_command calls, in milliseconds
ScanTimeout == 60000

InitScan ==
    /\ sock = 0
    /\ recv_buffer = <<>>
    /\ nextSock = 1
    /\ closed = {}
    /\ peer = [s \in Socks |-> IF s = 1 THEN "open" ELSE "none"]
    /\ inbox = [s \in Socks |-> <<>>]
    /\ stream = [s \in Socks |-> <<>>]
    /\ wire = [s \in Socks |-> <<>>]
    /\ nextId = 0
    /\ late = 0
    /\ InitCallers
    /\ InitHeld
    /\ InitNoServer
    /\ InitNoM4L
    /\ InitNoUdp
    /\ InitNoIdle
    /\ scan_pc = "idle"
    /\ scan_ret = "none"
    /\ browser_cache_populating = FALSE
    /\ shared_sock = 1
    /\ shared_uses = 0
    /\ budget = [t \in Threads |-> IF t = 1 THEN MaxCalls ELSE 0]
    /\ recording = FALSE

scanCallVars == <<pc, mode, command_type, attempt, sends, lastWrite, rsock, chunk, ret,
                  exc, fails, events, budget, overlapped, rxInput, recording, toVars,
                  gpc, gattempt, gret, g0, gcalls, gprobe, gsleeps, connected_event,
                  lockVars, m4lVars, idleVars>>

\* with state.browser_cache_lock: the cache is fresh and the scan is not
\* forced, or a scan is running: return True; else browser_cache_populating
\* = True.
ScanEnter(skip) ==
    /\ scan_pc = "idle"
    /\ IF skip \/ browser_cache_populating
       THEN /\ scan_pc' = "done"
            /\ scan_ret' = "true"
            /\ UNCHANGED browser_cache_populating
       ELSE /\ scan_pc' = "create"
            /\ browser_cache_populating' = TRUE
            /\ UNCHANGED scan_ret
    /\ UNCHANGED <<connVars, netVars, conn, nextConn, udpVars, shared_sock, shared_uses,
                   scanCallVars>>

\* Mutant of ScanCreate: the scan takes the shared connection.
ScanCreateShared ==
    /\ scan_pc = "create"
    /\ sock' = shared_sock
    /\ scan_pc' = "connect"
    /\ UNCHANGED <<recv_buffer, netVars, conn, nextConn, udpVars, scan_ret,
                   browser_cache_populating, shared_sock, shared_uses, scanCallVars>>

\* ableton = AbletonConnection(host="localhost", port=9877): a new instance
\* with no socket and an empty receive buffer.
ScanCreate ==
    /\ scan_pc = "create"
    /\ nextConn' = nextConn + 1
    /\ sock' = 0
    /\ recv_buffer' = <<>>
    /\ scan_pc' = "connect"
    /\ UNCHANGED <<netVars, conn, udpVars, scan_ret, browser_cache_populating,
                   shared_sock, shared_uses, scanCallVars>>

\* if not ableton.connect(): return False   (connect() returns True at once
\* when the instance has a socket)
ScanConnect ==
    /\ scan_pc \in {"connect", "reconnect"}
    /\ \/ /\ IF sock # 0
             THEN UNCHANGED <<connVars, nextSock, peer, events>>
             ELSE ConnectOk(1)
          /\ scan_pc' = "loop"
          /\ UNCHANGED scan_ret
       \/ /\ sock = 0
          /\ ConnectFail(1)
          /\ scan_pc' = IF scan_pc = "connect" THEN "finally" ELSE "loop"
          /\ scan_ret' = IF scan_pc = "connect" THEN "false" ELSE scan_ret
    /\ UNCHANGED <<closed, inbox, stream, wire, nextId, late, conn, nextConn, udpVars,
                   browser_cache_populating, shared_sock, shared_uses,
                   pc, mode, command_type, attempt, sends, lastWrite, rsock, chunk, ret,
                   exc, fails, budget, overlapped, rxInput, recording, toVars,
                   gpc, gattempt, gret, g0, gcalls, gprobe, gsleeps, connected_event,
                   lockVars, m4lVars, idleVars>>

\* result = ableton.send_command("get_browser_items_at_path", ..., timeout=60.0)
ScanCall ==
    /\ scan_pc = "loop"
    /\ pc[1] = "idle"
    /\ Call(1, "get_browser_items_at_path", ScanTimeout)

\* The items are filed and the loop goes on after time.sleep(0.05).
ScanResult ==
    /\ scan_pc = "loop"
    /\ pc[1] = "returned"
    /\ pc' = [pc EXCEPT ![1] = "idle"]
    /\ UNCHANGED <<connVars, netVars, conn, nextConn, udpVars, scanVars,
                   mode, command_type, attempt, sends, lastWrite, rsock, chunk, ret,
                   exc, fails, events, budget, overlapped, rxInput, recording, toVars,
                   gpc, gattempt, gret, g0, gcalls, gprobe, gsleeps, connected_event,
                   lockVars, m4lVars, idleVars>>

\* except Exception: time.sleep(2); ableton.disconnect(); then connect()
ScanRecover ==
    /\ scan_pc = "loop"
    /\ pc[1] = "raised"
    /\ DisconnectHeld
    /\ DisconnectUdp
    /\ pc' = [pc EXCEPT ![1] = "idle"]
    /\ scan_pc' = "reconnect"
    /\ UNCHANGED <<recv_buffer, nextSock, nextId, late, conn, nextConn, scan_ret,
                   browser_cache_populating, shared_sock, shared_uses,
                   mode, command_type, attempt, sends, lastWrite, rsock, chunk, ret,
                   exc, fails, events, budget, overlapped, rxInput, recording, toVars,
                   gpc, gattempt, gret, g0, gcalls, gprobe, gsleeps, connected_event,
                   lockVars, m4lVars, idleVars>>

\* The loops end: the cache is stored and True returned, or an exception
\* leaves the try block.
ScanLeave(r) ==
    /\ scan_pc = "loop"
    /\ pc[1] = "idle"
    /\ scan_ret' = r
    /\ scan_pc' = "finally"
    /\ UNCHANGED <<connVars, netVars, conn, nextConn, udpVars, browser_cache_populating,
                   shared_sock, shared_uses, scanCallVars>>

\* finally: browser_cache_populating = False; ableton.disconnect()
ScanFinally ==
    /\ scan_pc = "finally"
    /\ browser_cache_populating' = FALSE
    /\ DisconnectHeld
    /\ DisconnectUdp
    /\ scan_pc' = "done"
    /\ UNCHANGED <<recv_buffer, nextSock, nextId, late, conn, nextConn, scan_ret,
                   shared_sock, shared_uses, scanCallVars>>

\* Another tool sends a command on the shared connection and reads its
\* response.
SharedUse ==
    /\ shared_uses < MaxShared
    /\ shared_sock # 0
    /\ shared_sock \notin closed
    /\ peer[shared_sock] = "open"
    /\ inbox[shared_sock] = <<>>
    /\ nextId' = nextId + 1
    /\ shared_uses' = shared_uses + 1
    /\ UNCHANGED <<connVars, nextSock, closed, peer, inbox, stream, wire, late, conn,
                   nextConn, udpVars, scan_pc, scan_ret, browser_cache_populating,
                   shared_sock, scanCallVars>>

NextScan ==
    \/ \E skip \in BOOLEAN : ScanEnter(skip)
    \/ ScanCreate
    \/ ScanConnect
    \/ ScanCall
    \/ ScanResult
    \/ ScanRecover
    \/ \E r \in {"true", "raised"} : ScanLeave(r)
    \/ ScanFinally
    \/ SharedUse
    \/ SendCommandStep(1)
    \/ ReceiveStep(1)
    \/ RxRecvClosed(1)
    \/ RemoteStep

SpecScan == InitScan /\ [][NextScan]_vars

(***************************************************************************)
(* _tool_handler (MCP_Server/tools/_base.py): the wrapper around a tool    *)
(***************************************************************************)
MaxResult == 3

\* Everything the model has that is not pure.
coreVars == <<connVars, netVars, pc, mode, command_type, attempt, sends, lastWrite,
              rsock, chunk, ret, exc, fails, events, budget, overlapped, rxInput,
              recording, toVars, getVars, lockVars, m4lVars, udpVars>>
baseVars == <<coreVars, scanVars>>
hostVars == <<baseVars, raceVars, cacheVars, lifeVars>>

\* The characters of a tool's string result: the two openers, white space
\* and any other character.
ToolChars == {"{", "[", " ", "a"}
ToolStrings == UNION {[1..n -> ToolChars] : n \in 0..MaxResult}

\* Python's exception classes, each with its base class.
ExcBase ==
    [ BaseException |-> "object", Exception |-> "BaseException",
      SystemExit |-> "BaseException", ValueError |-> "Exception",
      JSONDecodeError |-> "ValueError", OSError |-> "Exception",
      ConnectionError |-> "OSError", ConnectionResetError |-> "ConnectionError",
      RuntimeError |-> "Exception" ]

RECURSIVE IsSubclass(_, _)
IsSubclass(c, b) ==
    IF c = b THEN TRUE
    ELSE IF c = "object" THEN FALSE
    ELSE IsSubclass(ExcBase[c], b)

\* What a tool function does: it returns a string, returns some other
\* value (a dict, None), or raises.
ToolRaises == {"ValueError", "JSONDecodeError", "OSError", "ConnectionError",
               "ConnectionResetError", "RuntimeError", "Exception", "SystemExit"}
ToolOutcomes ==
    {[kind |-> "str", text |-> x] : x \in ToolStrings}
    \cup {[kind |-> "value"]}
    \cup {[kind |-> "raise", cls |-> c, text |-> <<"a">>] : c \in ToolRaises}

ToolPrefixes == {"test operation", "doing stuff"}

\* str.strip()
RECURSIVE StripSpaces(_)
StripSpaces(x) ==
    IF x = <<>> THEN <<>>
    ELSE IF Head(x) = " " THEN StripSpaces(Tail(x))
    ELSE IF x[Len(x)] = " " THEN StripSpaces(SubSeq(x, 1, Len(x) - 1))
    ELSE x

\* Mutant of StartsStructured: the result is tested as it is.
StartsStructuredUnstripped(x) == x # <<>> /\ Head(x) \in {"{", "["}

\* stripped = result.strip(); stripped.startswith(("{", "["))
StartsStructured(x) ==
    LET stripped == StripSpaces(x)
    IN  stripped # <<>> /\ Head(stripped) \in {"{", "["}

\* tool_success(message) and tool_error(message): the JSON text of the
\* envelope; the message is kept as its parts.
tool_success(message) == [kind |-> "envelope", status |-> "ok", message |-> message]
tool_error(message) == [kind |-> "envelope", status |-> "error", message |-> message]

\* The body of wrapper: try ... except ValueError ... except
\* ConnectionError ... except Exception; an exception that is none of
\* these leaves the wrapper.
Wrapper(o, error_prefix) ==
    IF o.kind = "raise"
    THEN IF IsSubclass(o.cls, "ValueError")
         THEN tool_error(<<"Invalid input: ", o.text>>)
         ELSE IF IsSubclass(o.cls, "ConnectionError")
         THEN tool_error(<<"M4L bridge not available: ", o.text>>)
         ELSE IF IsSubclass(o.cls, "Exception")
         THEN tool_error(<<"Error ", error_prefix, ": ", o.text>>)
         ELSE o
    ELSE IF o.kind = "str"
    THEN IF StartsStructured(o.text) THEN o ELSE tool_success(<<o.text>>)
    ELSE o

\* result = await asyncio.to_thread(func, *args, **kwargs): the tool ran.
ToolCall(error_prefix, o) ==
    /\ tool_pc \in {"idle", "done"}
    /\ tool_pc' = "running"
    /\ tool_prefix' = error_prefix
    /\ tool_outcome' = o
    /\ tool_result' = NoOutcome
    /\ UNCHANGED <<hostVars, batchVars, oscVars, chunkVars>>

\* The wrapper returns or lets the exception through.
WrapperReturn ==
    /\ tool_pc = "running"
    /\ tool_result' = Wrapper(tool_outcome, tool_prefix)
    /\ tool_pc' = "done"
    /\ UNCHANGED <<tool_prefix, tool_outcome, hostVars, batchVars, oscVars, chunkVars>>

NextTool ==
    \/ \E e \in ToolPrefixes, o \in ToolOutcomes : ToolCall(e, o)
    \/ WrapperReturn

SpecTool == Init /\ [][NextTool]_vars

(***************************************************************************)
(* M4LConnection.send_command: the receive timeout of a batched            *)
(* parameter-set bridge command (connections/m4l.py)                       *)
(***************************************************************************)
MaxParams == 70

\* The base timeout and the allowance per parameter, in milliseconds.
BatchBaseTimeout == 10000
BatchPerParam == 150

\* Mutant of BatchTimeout: the timeout does not grow with the batch.
BatchTimeoutFixed(n) == BatchBaseTimeout

\* timeout = max(baseTimeout, paramCount * perParamAllowance)
BatchTimeout(n) ==
    IF n * BatchPerParam > BatchBaseTimeout THEN n * BatchPerParam ELSE BatchBaseTimeout

\* send_command("batch_set_hidden_params", {..., "parameters": [n entries]})
BatchCall(n) ==
    /\ batch_prev' = batch_last
    /\ batch_last' = [count |-> n, timeout |-> BatchTimeout(n)]
    /\ UNCHANGED <<hostVars, toolVars, oscVars, chunkVars>>

NextBatch == \E n \in 0..MaxParams : BatchCall(n)

SpecBatch == Init /\ [][NextBatch]_vars

(***************************************************************************)
(* M4LConnection._build_osc_message (connections/m4l.py) and the decoder   *)
(* at the far end: OSC 1.0 framing.  A byte is a number 0..255, a string   *)
(* the sequence of its character codes, a float argument a Python float    *)
(* with an integral value.                                                 *)
(***************************************************************************)
MaxArgs == 2

RECURSIVE Pow2(_)
Pow2(n) == IF n = 0 THEN 1 ELSE 2 * Pow2(n - 1)

\* The exponent of the highest set bit of a > 0.
RECURSIVE Log2Floor(_)
Log2Floor(a) == IF a < 2 THEN 0 ELSE 1 + Log2Floor(a \div 2)

Zeros(n) == [i \in 1..n |-> 0]

\* Mutant of PadLen: nothing is padded.
PadLenNone(n) == 0

\* The NUL bytes that bring n bytes to a multiple of 4.
PadLen(n) == (4 - (n % 4)) % 4

\* An OSC string: the characters, a NUL, and NULs up to a multiple of 4.
OscString(x) == x \o <<0>> \o Zeros(PadLen(Len(x) + 1))

\* struct.pack(">i", v): 32 bits, two's complement, big-endian
Int32BE(v) ==
    <<(v \div 16777216) % 256, (v \div 65536) % 256, (v \div 256) % 256, v % 256>>

\* The 24-bit significand of a > 0 in binary32, rounded to nearest, ties to
\* even, with the exponent it ends up with.
Significand(a) ==
    LET e == Log2Floor(a)
    IN  IF e <= 23 THEN [e |-> e, m |-> a * Pow2(23 - e)]
        ELSE LET unit == Pow2(e - 23)
                 q == a \div unit
                 r == a % unit
                 up == 2 * r > unit \/ (2 * r = unit /\ q % 2 = 1)
                 q2 == IF up THEN q + 1 ELSE q
             IN  IF q2 = Pow2(24) THEN [e |-> e + 1, m |-> Pow2(23)]
                 ELSE [e |-> e, m |-> q2]

\* struct.pack(">f", v): IEEE 754 binary32, big-endian
Float32BE(v) ==
    IF v = 0 THEN <<0, 0, 0, 0>>
    ELSE LET a == IF v < 0 THEN -v ELSE v
             sg == Significand(a)
             biased == sg.e + 127
             frac == sg.m - Pow2(23)
         IN  <<(IF v < 0 THEN 128 ELSE 0) + biased \div 2,
               (biased % 2) * 128 + frac \div 65536,
               (frac \div 256) % 256,
               frac % 256>>

\* The type tag characters 's', 'i', 'f' and the ',' that starts the tags.
TagCode(t) == IF t = "s" THEN 115 ELSE IF t = "i" THEN 105 ELSE 102
TagOf(code) == IF code = 115 THEN "s" ELSE IF code = 105 THEN "i" ELSE "f"
TypeTags(args) == <<44>> \o [i \in 1..Len(args) |-> TagCode(args[i].t)]

RECURSIVE EncodeArgs(_)
EncodeArgs(args) ==
    IF args = <<>> THEN <<>>
    ELSE LET a == Head(args)
         IN  (IF a.t = "s" THEN OscString(a.v)
              ELSE IF a.t = "i" THEN Int32BE(a.v)
              ELSE Float32BE(a.v))
             \o EncodeArgs(Tail(args))

\* _build_osc_message(address, args)
BuildOscMessage(address, args) ==
    OscString(address) \o OscString(TypeTags(args)) \o EncodeArgs(args)

\* The decoder: the string that starts at byte p and where the next field
\* starts.
ReadString(bs, p) ==
    LET z == CHOOSE i \in p..Len(bs) : bs[i] = 0 /\ \A j \in p..(i - 1) : bs[j] # 0
    IN  [v |-> SubSeq(bs, p, z - 1), next |-> z + 1 + PadLen(z - p + 1)]

ReadInt32(bs, p) ==
    LET u == bs[p + 1] * 65536 + bs[p + 2] * 256 + bs[p + 3]
    IN  IF bs[p] >= 128 THEN (bs[p] - 256) * 16777216 + u ELSE bs[p] * 16777216 + u

ReadFloat32(bs, p) ==
    LET biased == (bs[p] % 128) * 2 + bs[p + 1] \div 128
        frac == (bs[p + 1] % 128) * 65536 + bs[p + 2] * 256 + bs[p + 3]
        e == biased - 127
        a == IF e >= 23 THEN (Pow2(23) + frac) * Pow2(e - 23)
             ELSE (Pow2(23) + frac) \div Pow2(23 - e)
    IN  IF biased = 0 /\ frac = 0 THEN 0
        ELSE IF bs[p] >= 128 THEN -a ELSE a

RECURSIVE ReadArgs(_, _, _)
ReadArgs(bs, p, tags) ==
    IF tags = <<>> THEN <<>>
    ELSE LET t == TagOf(Head(tags))
         IN  IF t = "s"
             THEN LET r == ReadString(bs, p)
                  IN  <<[t |-> "s", v |-> r.v]>> \o ReadArgs(bs, r.next, Tail(tags))
             ELSE IF t = "i"
             THEN <<[t |-> "i", v |-> ReadInt32(bs, p)]>> \o ReadArgs(bs, p + 4, Tail(tags))
             ELSE <<[t |-> "f", v |-> ReadFloat32(bs, p)]>> \o ReadArgs(bs, p + 4, Tail(tags))

ParseOscMessage(bs) ==
    LET a == ReadString(bs, 1)
        g == ReadString(bs, a.next)
    IN  [address |-> a.v, args |-> ReadArgs(bs, g.next, Tail(g.v))]

\* "/a", "/ping" and "/test": addresses of 2, 5 and 5 characters; strings
\* of 0, 1, 3 and 4 characters; ints; floats, one of them (2^24 + 1) not a
\* binary32 value.
OscAddresses == {<<47, 97>>, <<47, 112, 105, 110, 103>>}
OscStrings == {<<>>, <<120>>, <<97, 98, 99>>, <<116, 101, 115, 116>>}
OscInts == {0, 42, -1, 2147483647, -2147483647}
OscFloats == {0, 1, -3, 16777216, 16777217}
OscArgs == {[t |-> "s", v |-> x] : x \in OscStrings}
           \cup {[t |-> "i", v |-> x] : x \in OscInts}
           \cup {[t |-> "f", v |-> x] : x \in OscFloats}
OscArgLists == UNION {[1..n -> OscArgs] : n \in 0..MaxArgs}

\* msg = M4LConnection._build_osc_message(address, args)
OscBuild(address, args) ==
    /\ osc_pc \in {"idle", "parsed"}
    /\ osc_in' = [address |-> address, args |-> args]
    /\ osc_msg' = BuildOscMessage(address, args)
    /\ osc_again' = <<>>
    /\ osc_out' = NoMessage
    /\ osc_pc' = "built"
    /\ UNCHANGED <<hostVars, toolVars, batchVars, chunkVars>>

\* The same call once more.
OscBuildAgain ==
    /\ osc_pc = "built"
    /\ osc_again = <<>>
    /\ osc_again' = BuildOscMessage(osc_in.address, osc_in.args)
    /\ UNCHANGED <<osc_pc, osc_in, osc_msg, osc_out, hostVars, toolVars, batchVars, chunkVars>>

\* The receiver decodes the datagram.
OscParse ==
    /\ osc_pc = "built"
    /\ osc_out' = ParseOscMessage(osc_msg)
    /\ osc_pc' = "parsed"
    /\ UNCHANGED <<osc_in, osc_msg, osc_again, hostVars, toolVars, batchVars, chunkVars>>

NextOsc ==
    \/ \E a \in OscAddresses, l \in OscArgLists : OscBuild(a, l)
    \/ OscBuildAgain
    \/ OscParse

SpecOsc == Init /\ [][NextOsc]_vars

(***************************************************************************)
(* M4LConnection._reassemble_chunked_response (connections/m4l.py): the    *)
(* bridge answers with a JSON document, cut into slices that are each      *)
(* base64-url-safe encoded with the '=' padding stripped and sent as       *)
(* {"_c": index, "_t": total, "_d": slice}.  UDP delivers the datagrams in *)
(* any order and may repeat them.  A byte is a number 0..255, a base64     *)
(* character its 6-bit value, a document a list of digits.                 *)
(***************************************************************************)
MaxChunks == 3
MaxRecvs == 3

\* base64.urlsafe_b64encode(bs).rstrip("=")
RECURSIVE B64Encode(_)
B64Encode(bs) ==
    IF Len(bs) = 0 THEN <<>>
    ELSE IF Len(bs) = 1 THEN <<bs[1] \div 4, (bs[1] % 4) * 16>>
    ELSE IF Len(bs) = 2
    THEN <<bs[1] \div 4, (bs[1] % 4) * 16 + bs[2] \div 16, (bs[2] % 16) * 4>>
    ELSE <<bs[1] \div 4, (bs[1] % 4) * 16 + bs[2] \div 16,
           (bs[2] % 16) * 4 + bs[3] \div 64, bs[3] % 64>>
         \o B64Encode(SubSeq(bs, 4, Len(bs)))

\* Mutant of B64Decode: the padding is not put back, so that a last group
\* of fewer than 4 characters is lost.
RECURSIVE B64DecodeUnpadded(_)
B64DecodeUnpadded(cs) ==
    IF Len(cs) < 4 THEN <<>>
    ELSE <<cs[1] * 4 + cs[2] \div 16, (cs[2] % 16) * 16 + cs[3] \div 4,
           (cs[3] % 4) * 64 + cs[4]>>
         \o B64DecodeUnpadded(SubSeq(cs, 5, Len(cs)))

\* base64.urlsafe_b64decode of the slice with its padding put back
RECURSIVE B64Decode(_)
B64Decode(cs) ==
    IF Len(cs) < 2 THEN <<>>
    ELSE IF Len(cs) = 2 THEN <<cs[1] * 4 + cs[2] \div 16>>
    ELSE IF Len(cs) = 3
    THEN <<cs[1] * 4 + cs[2] \div 16, (cs[2] % 16) * 16 + cs[3] \div 4>>
    ELSE <<cs[1] * 4 + cs[2] \div 16, (cs[2] % 16) * 16 + cs[3] \div 4,
           (cs[3] % 4) * 64 + cs[4]>>
         \o B64Decode(SubSeq(cs, 5, Len(cs)))

\* json.dumps of a list of digits: "[1, 2]"
RECURSIVE DumpItems(_)
DumpItems(l) ==
    IF l = <<>> THEN <<>>
    ELSE IF Len(l) = 1 THEN <<48 + l[1]>>
    ELSE <<48 + l[1], 44, 32>> \o DumpItems(Tail(l))

JsonDumps(l) == <<91>> \o DumpItems(l) \o <<93>>

\* json.loads: white space is skipped, anything but a list of digits is a
\* JSONDecodeError.
RECURSIVE NoSpaces(_)
NoSpaces(bs) ==
    IF bs = <<>> THEN <<>>
    ELSE IF Head(bs) = 32 THEN NoSpaces(Tail(bs))
    ELSE <<Head(bs)>> \o NoSpaces(Tail(bs))

IsDigit(b) == b >= 48 /\ b <= 57

\* digit (',' digit)*
RECURSIVE ItemsOk(_)
ItemsOk(bs) ==
    /\ bs # <<>>
    /\ IsDigit(bs[1])
    /\ \/ Len(bs) = 1
       \/ Len(bs) >= 3 /\ bs[2] = 44 /\ ItemsOk(SubSeq(bs, 3, Len(bs)))

RECURSIVE Items(_)
Items(bs) ==
    IF Len(bs) < 1 THEN <<>>
    ELSE <<bs[1] - 48>> \o Items(SubSeq(bs, 3, Len(bs)))

LoadsDigits(text) ==
    LET bs == NoSpaces(text)
        inner == SubSeq(bs, 2, Len(bs) - 1)
    IN  IF Len(bs) >= 2 /\ bs[1] = 91 /\ bs[Len(bs)] = 93
           /\ (inner = <<>> \/ ItemsOk(inner))
        THEN [kind |-> "payload", v |-> Items(inner)]
        ELSE [kind |-> "error", v |-> "JSONDecodeError"]

\* The documents, and the ways to cut n bytes into non-empty slices.
ChunkDocs == UNION {[1..n -> {1, 2}] : n \in 0..2}

RECURSIVE Cuts(_, _)
Cuts(bs, k) ==
    IF k = 1 THEN {<<bs>>}
    ELSE UNION {{<<SubSeq(bs, 1, c)>> \o rest : rest \in Cuts(SubSeq(bs, c + 1, Len(bs)), k - 1)} :
                c \in 1..(Len(bs) - (k - 1))}

Splits(bs) == UNION {Cuts(bs, k) : k \in 1..(IF Len(bs) < MaxChunks THEN Len(bs) ELSE MaxChunks)}

\* The datagram of chunk i (0-based) of the response.
Packet(parts, i) == [c |-> i, t |-> Len(parts), d |-> B64Encode(parts[i + 1])]

RECURSIVE Concat(_)
Concat(ss) == IF ss = <<>> THEN <<>> ELSE Head(ss) \o Concat(Tail(ss))

\* total == 1: the chunk is the response
IsWhole(t) == t = 1

\* Mutant of Buffered: the slices are kept in the order they came.
BufferedAppend(buf, pkt) ==
    LET k == Cardinality(DOMAIN buf)
    IN  [i \in (DOMAIN buf) \cup {k} |-> IF i = k THEN pkt.d ELSE buf[i]]

\* chunks[_c] = _d
Buffered(buf, pkt) ==
    [i \in (DOMAIN buf) \cup {pkt.c} |-> IF i = pkt.c THEN pkt.d ELSE buf[i]]

\* every index 0..total-1 is in the buffer
Complete(buf, t) == \A i \in 0..(t - 1) : i \in DOMAIN buf

\* The first arrival of each index, in the order of arrival.
RECURSIVE FirstArrivals(_, _)
FirstArrivals(order, seen) ==
    IF order = <<>> THEN <<>>
    ELSE IF Head(order) \in seen THEN FirstArrivals(Tail(order), seen)
    ELSE <<Head(order)>> \o FirstArrivals(Tail(order), seen \cup {Head(order)})

\* Mutant of Reassemble: the slices are joined in the order they came.
ReassembleAsArrived(buf, order, t) ==
    LET idx == FirstArrivals(order, {})
    IN  LoadsDigits(Concat([k \in 1..Len(idx) |-> B64Decode(buf[idx[k]])]))

\* The decoded slices joined in index order, then json.loads.
Reassemble(buf, order, t) ==
    LoadsDigits(Concat([k \in 1..t |-> B64Decode(buf[k - 1])]))

\* The bridge answers doc, cut into parts.
ChunkSend(doc, parts) ==
    /\ chunk_pc = "idle"
    /\ chunk_doc' = doc
    /\ chunk_parts' = parts
    /\ chunk_pc' = "sent"
    /\ UNCHANGED <<chunk_buf, chunk_order, chunk_recvs, chunk_result,
                   hostVars, toolVars, batchVars, oscVars>>

\* One more chunk is in the buffer: done when every index is there.
ChunkTaken(pkt, order) ==
    LET buf == Buffered(chunk_buf, pkt)
    IN  /\ chunk_buf' = buf
        /\ chunk_order' = order
        /\ IF Complete(buf, pkt.t)
           THEN /\ chunk_result' = Reassemble(buf, order, pkt.t)
                /\ chunk_pc' = "done"
           ELSE /\ chunk_result' = chunk_result
                /\ chunk_pc' = "waiting"

\* _reassemble_chunked_response(first_chunk): the chunk that arrived first,
\* whichever index it has.
ChunkFirst(i) ==
    /\ chunk_pc = "sent"
    /\ LET pkt == Packet(chunk_parts, i)
       IN  IF IsWhole(pkt.t)
           THEN /\ chunk_result' = LoadsDigits(B64Decode(pkt.d))
                /\ chunk_order' = <<i>>
                /\ chunk_pc' = "done"
                /\ UNCHANGED chunk_buf
           ELSE ChunkTaken(pkt, <<i>>)
    /\ UNCHANGED <<chunk_doc, chunk_parts, chunk_recvs, hostVars, toolVars, batchVars, oscVars>>

\* recv_sock.recvfrom returns chunk i of the response, for the first time
\* or again.
ChunkRecv(i) ==
    /\ chunk_pc = "waiting"
    /\ chunk_recvs < MaxRecvs
    /\ chunk_recvs' = chunk_recvs + 1
    /\ ChunkTaken(Packet(chunk_parts, i), Append(chunk_order, i))
    /\ UNCHANGED <<chunk_doc, chunk_parts, hostVars, toolVars, batchVars, oscVars>>

\* recv_sock.recvfrom times out: the chunks that are missing never came.
ChunkTimeout ==
    /\ chunk_pc = "waiting"
    /\ chunk_recvs' = chunk_recvs + 1
    /\ chunk_result' = [kind |-> "error", v |-> "timeout"]
    /\ chunk_pc' = "done"
    /\ UNCHANGED <<chunk_doc, chunk_parts, chunk_buf, chunk_order,
                   hostVars, toolVars, batchVars, oscVars>>

NextChunk ==
    \/ \E doc \in ChunkDocs : \E parts \in Splits(JsonDumps(doc)) : ChunkSend(doc, parts)
    \/ \E i \in 0..(Len(chunk_parts) - 1) : ChunkFirst(i)
    \/ \E i \in 0..(Len(chunk_parts) - 1) : ChunkRecv(i)
    \/ ChunkTimeout

SpecChunk == Init /\ [][NextChunk]_vars

(***************************************************************************)
(* get_ableton_connection called by two threads (tools run in              *)
(* asyncio.to_thread) while state.ableton_connection is None.  Nothing     *)
(* guards the global: every statement reads it again.  A statement is one  *)
(* step; connect() and the validating send_command act on the instance the *)
(* global holds when they are called.                                      *)
(***************************************************************************)
raceFrame == <<baseVars, pureVars, cacheVars, lifeVars>>

RaceEnded(t) == cpc[t] \in {"returned", "raised"}

\* state.ableton_connection.disconnect(), on the instance i (None: nothing)
InstSockAfterDisconnect(i) ==
    IF i = 0 THEN inst_sock ELSE [inst_sock EXCEPT ![i] = "none"]

\* get_ableton_connection() is called while no connection exists.
RaceCall(t) ==
    /\ cpc[t] = "idle"
    /\ shared_conn = 0
    /\ cpc' = [cpc EXCEPT ![t] = "entry"]
    /\ UNCHANGED <<shared_conn, nextInst, inst_sock, validated, cattempt, cret, raceFrame>>

\* if state.ableton_connection is not None:
RaceEntry(t) ==
    /\ cpc[t] = "entry"
    /\ cpc' = [cpc EXCEPT ![t] = IF shared_conn # 0 THEN "probe" ELSE "check"]
    /\ UNCHANGED <<shared_conn, nextInst, inst_sock, validated, cattempt, cret, raceFrame>>

\* if state.ableton_connection.sock is None: raise ConnectionError;
\* settimeout; getpeername  (AttributeError when the global is None by now)
RaceProbe(t) ==
    /\ cpc[t] = "probe"
    /\ cpc' = [cpc EXCEPT ![t] =
                  IF shared_conn = 0 THEN "discard"
                  ELSE IF inst_sock[shared_conn] = "open" THEN "probe_return"
                  ELSE "discard"]
    /\ UNCHANGED <<shared_conn, nextInst, inst_sock, validated, cattempt, cret, raceFrame>>

\* return state.ableton_connection   (after the probe)
RaceProbeReturn(t) ==
    /\ cpc[t] = "probe_return"
    /\ cret' = [cret EXCEPT ![t] = shared_conn]
    /\ cpc' = [cpc EXCEPT ![t] = "returned"]
    /\ UNCHANGED <<shared_conn, nextInst, inst_sock, validated, cattempt, raceFrame>>

\* except Exception: try: state.ableton_connection.disconnect() except: pass
RaceDiscard(t) ==
    /\ cpc[t] = "discard"
    /\ inst_sock' = InstSockAfterDisconnect(shared_conn)
    /\ cpc' = [cpc EXCEPT ![t] = "discard_set"]
    /\ UNCHANGED <<shared_conn, nextInst, validated, cattempt, cret, raceFrame>>

\* state.ableton_connection = None
RaceDiscardSet(t) ==
    /\ cpc[t] = "discard_set"
    /\ shared_conn' = 0
    /\ cpc' = [cpc EXCEPT ![t] = "check"]
    /\ UNCHANGED <<nextInst, inst_sock, validated, cattempt, cret, raceFrame>>

\* if state.ableton_connection is None: max_attempts = 3; for attempt in ...
RaceCheck(t) ==
    /\ cpc[t] = "check"
    /\ IF shared_conn = 0
       THEN /\ cpc' = [cpc EXCEPT ![t] = "create"]
            /\ cattempt' = [cattempt EXCEPT ![t] = 1]
       ELSE /\ cpc' = [cpc EXCEPT ![t] = "final"]
            /\ UNCHANGED cattempt
    /\ UNCHANGED <<shared_conn, nextInst, inst_sock, validated, cret, raceFrame>>

\* state.ableton_connection = AbletonConnection(host="localhost", port=9877)
RaceCreate(t) ==
    /\ cpc[t] = "create"
    /\ nextInst' = nextInst + 1
    /\ shared_conn' = nextInst + 1
    /\ cpc' = [cpc EXCEPT ![t] = "connect"]
    /\ UNCHANGED <<inst_sock, validated, cattempt, cret, raceFrame>>

\* if state.ableton_connection.connect():  on the instance the global holds
\* now: True at once when it has a socket, else the TCP connect succeeds or
\* not; AttributeError, caught by the outer except, when the global is None.
RaceConnect(t, ok) ==
    /\ cpc[t] = "connect"
    /\ IF shared_conn = 0
       THEN /\ cpc' = [cpc EXCEPT ![t] = "except"]
            /\ UNCHANGED inst_sock
       ELSE IF inst_sock[shared_conn] = "open" \/ ok
       THEN /\ inst_sock' = [inst_sock EXCEPT ![shared_conn] = "open"]
            /\ cpc' = [cpc EXCEPT ![t] = "validate"]
       ELSE /\ cpc' = [cpc EXCEPT ![t] = "else_none"]
            /\ UNCHANGED inst_sock
    /\ UNCHANGED <<shared_conn, nextInst, validated, cattempt, cret, raceFrame>>

\* else: state.ableton_connection = None
RaceElseNone(t) ==
    /\ cpc[t] = "else_none"
    /\ shared_conn' = 0
    /\ cpc' = [cpc EXCEPT ![t] = "wait"]
    /\ UNCHANGED <<nextInst, inst_sock, validated, cattempt, cret, raceFrame>>

\* state.ableton_connection.send_command("get_session_info"): it returns,
\* on a socket it connected itself if the instance had none, or it raises
\* and leaves the instance without a socket; AttributeError when the global
\* is None.
RaceValidate(t, ok) ==
    /\ cpc[t] = "validate"
    /\ IF shared_conn = 0
       THEN /\ cpc' = [cpc EXCEPT ![t] = "validation_failed"]
            /\ UNCHANGED <<inst_sock, validated>>
       ELSE IF ok
       THEN /\ inst_sock' = [inst_sock EXCEPT ![shared_conn] = "open"]
            /\ validated' = validated \cup {shared_conn}
            /\ cpc' = [cpc EXCEPT ![t] = "validated"]
       ELSE /\ inst_sock' = [inst_sock EXCEPT ![shared_conn] = "none"]
            /\ cpc' = [cpc EXCEPT ![t] = "validation_failed"]
            /\ UNCHANGED validated
    /\ UNCHANGED <<shared_conn, nextInst, cattempt, cret, raceFrame>>

\* state.ableton_connected_event.set(); return state.ableton_connection
RaceValidated(t) ==
    /\ cpc[t] = "validated"
    /\ cret' = [cret EXCEPT ![t] = shared_conn]
    /\ cpc' = [cpc EXCEPT ![t] = "returned"]
    /\ UNCHANGED <<shared_conn, nextInst, inst_sock, validated, cattempt, raceFrame>>

\* except Exception: state.ableton_connection.disconnect()  (AttributeError
\* when the global is None: it leaves the handler for the outer except)
RaceValidationFailed(t) ==
    /\ cpc[t] = "validation_failed"
    /\ inst_sock' = InstSockAfterDisconnect(shared_conn)
    /\ cpc' = [cpc EXCEPT ![t] = IF shared_conn = 0 THEN "except" ELSE "failed_set"]
    /\ UNCHANGED <<shared_conn, nextInst, validated, cattempt, cret, raceFrame>>

\* state.ableton_connection = None
RaceFailedSet(t) ==
    /\ cpc[t] = "failed_set"
    /\ shared_conn' = 0
    /\ cpc' = [cpc EXCEPT ![t] = "wait"]
    /\ UNCHANGED <<nextInst, inst_sock, validated, cattempt, cret, raceFrame>>

\* except Exception: if state.ableton_connection:
\*     state.ableton_connection.disconnect(); state.ableton_connection = None
RaceExcept(t) ==
    /\ cpc[t] = "except"
    /\ inst_sock' = InstSockAfterDisconnect(shared_conn)
    /\ shared_conn' = 0
    /\ cpc' = [cpc EXCEPT ![t] = "wait"]
    /\ UNCHANGED <<nextInst, validated, cattempt, cret, raceFrame>>

\* if attempt < max_attempts: time.sleep(1.0), and the next iteration
RaceWait(t) ==
    /\ cpc[t] = "wait"
    /\ IF cattempt[t] < GetMaxAttempts
       THEN /\ cattempt' = [cattempt EXCEPT ![t] = @ + 1]
            /\ cpc' = [cpc EXCEPT ![t] = "create"]
       ELSE /\ cpc' = [cpc EXCEPT ![t] = "after"]
            /\ UNCHANGED cattempt
    /\ UNCHANGED <<shared_conn, nextInst, inst_sock, validated, cret, raceFrame>>

\* if state.ableton_connection is None: raise Exception("Could not connect ...")
RaceAfter(t) ==
    /\ cpc[t] = "after"
    /\ cpc' = [cpc EXCEPT ![t] = IF shared_conn = 0 THEN "raised" ELSE "final"]
    /\ UNCHANGED <<shared_conn, nextInst, inst_sock, validated, cattempt, cret, raceFrame>>

\* return state.ableton_connection   (the last line)
RaceFinal(t) ==
    /\ cpc[t] = "final"
    /\ cret' = [cret EXCEPT ![t] = shared_conn]
    /\ cpc' = [cpc EXCEPT ![t] = "returned"]
    /\ UNCHANGED <<shared_conn, nextInst, inst_sock, validated, cattempt, raceFrame>>

NextRace ==
    \E t \in Threads :
        \/ RaceCall(t)
        \/ RaceEntry(t)
        \/ RaceProbe(t)
        \/ RaceProbeReturn(t)
        \/ RaceDiscard(t)
        \/ RaceDiscardSet(t)
        \/ RaceCheck(t)
        \/ RaceCreate(t)
        \/ \E ok \in BOOLEAN : RaceConnect(t, ok)
        \/ RaceElseNone(t)
        \/ \E ok \in BOOLEAN : RaceValidate(t, ok)
        \/ RaceValidated(t)
        \/ RaceValidationFailed(t)
        \/ RaceFailedSet(t)
        \/ RaceExcept(t)
        \/ RaceWait(t)
        \/ RaceAfter(t)
        \/ RaceFinal(t)

SpecRace == Init /\ [][NextRace]_vars

(***************************************************************************)
(* populate_browser_cache called by two threads (the warm-up thread and a  *)
(* tool).  A `with state.browser_cache_lock` block is an acquire and one   *)
(* step that releases; the breadth-first walk of a category is MaxPaths    *)
(* commands, each of which returns items, returns an error, raises, or     *)
(* returns something the loop body cannot read.                            *)
(***************************************************************************)
MaxCats == 2       \* categories of BROWSER_CATEGORIES a scan walks
MaxPaths == 2      \* paths a scan reads in one category
MaxPopulate == 3   \* calls of populate_browser_cache

cacheFrame == <<coreVars, pureVars, raceVars, lifeVars, scan_pc, scan_ret, shared_sock,
                shared_uses>>

CommandOutcomes == {"items", "error", "raise", "unreadable"}

\* Mutant of EntryDecision: force=True starts a scan although one is running.
EntryDecisionForced(force, fresh, populating) ==
    IF ~force /\ fresh THEN "fresh"
    ELSE IF populating /\ ~force THEN "busy"
    ELSE "scan"

\* if not force and the cache is fresh: return True
\* if state.browser_cache_populating: return True
EntryDecision(force, fresh, populating) ==
    IF ~force /\ fresh THEN "fresh"
    ELSE IF populating THEN "busy"
    ELSE "scan"

\* populate_browser_cache(force)
PopulateCall(t, force) ==
    /\ bpc[t] \in {"idle", "done"}
    /\ bcalls < MaxPopulate
    /\ bcalls' = bcalls + 1
    /\ bforce' = [bforce EXCEPT ![t] = force]
    /\ bret' = [bret EXCEPT ![t] = "none"]
    /\ bpc' = [bpc EXCEPT ![t] = "lock"]
    /\ UNCHANGED <<browser_cache_lock, browser_cache_flat, browser_cache_timestamp,
                   browser_cache_populating, bsock, bcat, bpath, bitems>>
    /\ UNCHANGED cacheFrame

\* with state.browser_cache_lock:   (at the entry, at the store, in finally)
PopulateAcquire(t) ==
    /\ bpc[t] \in {"lock", "store_lock", "finally_lock"}
    /\ browser_cache_lock = 0
    /\ browser_cache_lock' = t
    /\ bpc' = [bpc EXCEPT ![t] = IF bpc[t] = "lock" THEN "enter"
                                 ELSE IF bpc[t] = "store_lock" THEN "store"
                                 ELSE "finally"]
    /\ UNCHANGED <<browser_cache_flat, browser_cache_timestamp, browser_cache_populating,
                   bforce, bret, bsock, bcat, bpath, bitems, bcalls>>
    /\ UNCHANGED cacheFrame

\* The two tests under the lock; the cache can be fresh only when
\* browser_cache_flat is not empty.
PopulateEnter(t, fresh) ==
    /\ bpc[t] = "enter"
    /\ fresh => browser_cache_flat > 0
    /\ browser_cache_lock' = 0
    /\ IF EntryDecision(bforce[t], fresh, browser_cache_populating) = "scan"
       THEN /\ browser_cache_populating' = TRUE
            /\ bpc' = [bpc EXCEPT ![t] = "create"]
            /\ UNCHANGED bret
       ELSE /\ bret' = [bret EXCEPT ![t] = "true"]
            /\ bpc' = [bpc EXCEPT ![t] = "done"]
            /\ UNCHANGED browser_cache_populating
    /\ UNCHANGED <<browser_cache_flat, browser_cache_timestamp, bforce, bsock, bcat,
                   bpath, bitems, bcalls>>
    /\ UNCHANGED cacheFrame

\* ableton = AbletonConnection(host="localhost", port=9877)
PopulateCreate(t) ==
    /\ bpc[t] = "create"
    /\ bsock' = [bsock EXCEPT ![t] = "none"]
    /\ bpc' = [bpc EXCEPT ![t] = "connect"]
    /\ UNCHANGED <<browser_cache_lock, browser_cache_flat, browser_cache_timestamp,
                   browser_cache_populating, bforce, bret, bcat, bpath, bitems, bcalls>>
    /\ UNCHANGED cacheFrame

\* if not ableton.connect(): return False;  flat_items = []; the first
\* category
PopulateConnect(t, ok) ==
    /\ bpc[t] = "connect"
    /\ IF ok
       THEN /\ bsock' = [bsock EXCEPT ![t] = "open"]
            /\ bcat' = [bcat EXCEPT ![t] = 1]
            /\ bpath' = [bpath EXCEPT ![t] = 1]
            /\ bitems' = [bitems EXCEPT ![t] = 0]
            /\ bpc' = [bpc EXCEPT ![t] = "scan"]
            /\ UNCHANGED bret
       ELSE /\ bret' = [bret EXCEPT ![t] = "false"]
            /\ bpc' = [bpc EXCEPT ![t] = "finally_lock"]
            /\ UNCHANGED <<bsock, bcat, bpath, bitems>>
    /\ UNCHANGED <<browser_cache_lock, browser_cache_flat, browser_cache_timestamp,
                   browser_cache_populating, bforce, bcalls>>
    /\ UNCHANGED cacheFrame

\* The next path of the category, or the first of the next category.
NextCat(t) == IF bpath[t] < MaxPaths THEN bcat[t] ELSE bcat[t] + 1
NextPath(t) == IF bpath[t] < MaxPaths THEN bpath[t] + 1 ELSE 1

\* result = ableton.send_command("get_browser_items_at_path", ...) and the
\* loop body: the items are appended; `"error" in result`: continue; the
\* command raises: the except branch; the body raises on the result: the
\* exception leaves the try block.
PopulateCommand(t, outcome) ==
    /\ bpc[t] = "scan"
    /\ bcat[t] <= MaxCats
    /\ IF outcome \in {"items", "error"}
       THEN /\ bitems' = [bitems EXCEPT ![t] = IF outcome = "items" THEN @ + 1 ELSE @]
            /\ bsock' = [bsock EXCEPT ![t] = "open"]
            /\ bcat' = [bcat EXCEPT ![t] = NextCat(t)]
            /\ bpath' = [bpath EXCEPT ![t] = NextPath(t)]
            /\ UNCHANGED <<bpc, bret>>
       ELSE IF outcome = "raise"
       THEN /\ bsock' = [bsock EXCEPT ![t] = "none"]
            /\ bpc' = [bpc EXCEPT ![t] = "recover"]
            /\ UNCHANGED <<bitems, bcat, bpath, bret>>
       ELSE /\ bret' = [bret EXCEPT ![t] = "raised"]
            /\ bpc' = [bpc EXCEPT ![t] = "finally_lock"]
            /\ UNCHANGED <<bitems, bsock, bcat, bpath>>
    /\ UNCHANGED <<browser_cache_lock, browser_cache_flat, browser_cache_timestamp,
                   browser_cache_populating, bforce, bcalls>>
    /\ UNCHANGED cacheFrame

\* except Exception: time.sleep(2); ableton.disconnect();
\* if not ableton.connect(): break   (the category is skipped);  continue
PopulateRecover(t, ok) ==
    /\ bpc[t] = "recover"
    /\ bpc' = [bpc EXCEPT ![t] = "scan"]
    /\ IF ok
       THEN /\ bsock' = [bsock EXCEPT ![t] = "open"]
            /\ bcat' = [bcat EXCEPT ![t] = NextCat(t)]
            /\ bpath' = [bpath EXCEPT ![t] = NextPath(t)]
       ELSE /\ bsock' = [bsock EXCEPT ![t] = "none"]
            /\ bcat' = [bcat EXCEPT ![t] = @ + 1]
            /\ bpath' = [bpath EXCEPT ![t] = 1]
    /\ UNCHANGED <<browser_cache_lock, browser_cache_flat, browser_cache_timestamp,
                   browser_cache_populating, bforce, bret, bitems, bcalls>>
    /\ UNCHANGED cacheFrame

\* The loop over the categories has ended: device_map = ...
PopulateLoopEnd(t) ==
    /\ bpc[t] = "scan"
    /\ bcat[t] > MaxCats
    /\ bpc' = [bpc EXCEPT ![t] = "store_lock"]
    /\ UNCHANGED <<browser_cache_lock, browser_cache_flat, browser_cache_timestamp,
                   browser_cache_populating, bforce, bret, bsock, bcat, bpath, bitems,
                   bcalls>>
    /\ UNCHANGED cacheFrame

\* state.browser_cache_flat = flat_items; ...;
\* state.browser_cache_timestamp = time.time();  return True
PopulateStore(t) ==
    /\ bpc[t] = "store"
    /\ browser_cache_flat' = bitems[t]
    /\ browser_cache_timestamp' = browser_cache_timestamp + 1
    /\ browser_cache_lock' = 0
    /\ bret' = [bret EXCEPT ![t] = "true"]
    /\ bpc' = [bpc EXCEPT ![t] = "finally_lock"]
    /\ UNCHANGED <<browser_cache_populating, bforce, bsock, bcat, bpath, bitems, bcalls>>
    /\ UNCHANGED cacheFrame

\* finally: with the lock: browser_cache_populating = False;
\* ableton.disconnect()
PopulateFinally(t) ==
    /\ bpc[t] = "finally"
    /\ browser_cache_populating' = FALSE
    /\ browser_cache_lock' = 0
    /\ bsock' = [bsock EXCEPT ![t] = "none"]
    /\ bcat' = [bcat EXCEPT ![t] = 0]
    /\ bpath' = [bpath EXCEPT ![t] = 0]
    /\ bitems' = [bitems EXCEPT ![t] = 0]
    /\ bpc' = [bpc EXCEPT ![t] = "done"]
    /\ UNCHANGED <<browser_cache_flat, browser_cache_timestamp, bforce, bret, bcalls>>
    /\ UNCHANGED cacheFrame

PopulateStep(t) ==
    \/ \E force \in BOOLEAN : PopulateCall(t, force)
    \/ PopulateAcquire(t)
    \/ \E fresh \in BOOLEAN : PopulateEnter(t, fresh)
    \/ PopulateCreate(t)
    \/ \E ok \in BOOLEAN : PopulateConnect(t, ok)
    \/ \E outcome \in CommandOutcomes : PopulateCommand(t, outcome)
    \/ \E ok \in BOOLEAN : PopulateRecover(t, ok)
    \/ PopulateLoopEnd(t)
    \/ PopulateStore(t)
    \/ PopulateFinally(t)

NextCache ==
    \E t \in Threads :
        \/ \E force \in BOOLEAN : PopulateCall(t, force)
        \/ PopulateAcquire(t)
        \/ \E fresh \in BOOLEAN : PopulateEnter(t, fresh)
        \/ PopulateCreate(t)
        \/ \E ok \in BOOLEAN : PopulateConnect(t, ok)
        \/ \E outcome \in CommandOutcomes : PopulateCommand(t, outcome)
        \/ \E ok \in BOOLEAN : PopulateRecover(t, ok)
        \/ PopulateLoopEnd(t)
        \/ PopulateStore(t)
        \/ PopulateFinally(t)

SpecCache == Init /\ [][NextCache]_vars

\* Every thread that can take a step takes one in the end.
SpecCacheFair ==
    SpecCache /\ \A t \in Threads : WF_vars(PopulateStep(t) /\ bpc[t] \notin {"idle", "done"})

(***************************************************************************)
(* server_lifespan statement by statement, with the m4l-auto-connect       *)
(* thread it starts.  The thread is a daemon: it runs until it returns or  *)
(* the process ends.                                                       *)
(***************************************************************************)
lifeFrame == <<connVars, netVars, pc, mode, command_type, attempt, sends, lastWrite,
               rsock, chunk, ret, exc, fails, events, budget, overlapped, rxInput,
               recording, toVars, getVars, m4lVars, udpVars, scanVars, pureVars, raceVars,
               cacheVars>>

\* try: ableton = get_ableton_connection() except Exception: log;
\* threading.Thread(target=_m4l_auto_connect, daemon=True).start(); the
\* dashboard, the warm-up thread, the templates; yield {}
LifespanStartup(i) ==
    /\ ipc[i] = "connect"
    /\ tried' = [tried EXCEPT ![i] = TRUE]
    /\ \E ok \in BOOLEAN : held' = [held EXCEPT ![i] = ok]
    /\ auto_pc' = [auto_pc EXCEPT ![i] = "start"]
    /\ ipc' = [ipc EXCEPT ![i] = "running"]
    /\ UNCHANGED <<lockHolder, lock_sock, exitStatus, starts, m4l_socks, state_m4l, lifeFrame>>

\* A tool calls get_ableton_connection() while the server runs: it returns
\* a connection or raises.
LifespanTool(i, ok) ==
    /\ ipc[i] = "running"
    /\ held[i] # ok
    /\ held' = [held EXCEPT ![i] = ok]
    /\ UNCHANGED <<lockHolder, ipc, lock_sock, exitStatus, tried, starts, lifeVars, lifeFrame>>

\* conn = M4LConnection(); if not conn.connect(): return
AutoConnectBind(i, ok) ==
    /\ auto_pc[i] = "start"
    /\ m4l_socks' = [m4l_socks EXCEPT ![i] = IF ok THEN "open" ELSE "none"]
    /\ auto_pc' = [auto_pc EXCEPT ![i] = IF ok THEN "bound" ELSE "ended"]
    /\ UNCHANGED <<lockVars, state_m4l, lifeFrame>>

\* state.m4l_connection = conn
AutoConnectAssign(i) ==
    /\ auto_pc[i] = "bound"
    /\ state_m4l' = [state_m4l EXCEPT ![i] = TRUE]
    /\ auto_pc' = [auto_pc EXCEPT ![i] = "ping"]
    /\ UNCHANGED <<lockVars, m4l_socks, lifeFrame>>

\* The loop of 15 pings: it returns on the first answer or after the last
\* attempt; it opens and closes no socket.
AutoConnectReturn(i) ==
    /\ auto_pc[i] = "ping"
    /\ auto_pc' = [auto_pc EXCEPT ![i] = "ended"]
    /\ UNCHANGED <<lockVars, m4l_socks, state_m4l, lifeFrame>>

\* finally: stop_dashboard_server(); if state.ableton_connection:
\* state.ableton_connection.disconnect(); state.ableton_connection = None
ShutdownAbleton(i) ==
    /\ ipc[i] = "shutdown"
    /\ held' = [held EXCEPT ![i] = FALSE]
    /\ ipc' = [ipc EXCEPT ![i] = "shutdown_m4l"]
    /\ UNCHANGED <<lockHolder, lock_sock, exitStatus, tried, starts, lifeVars, lifeFrame>>

\* if state.m4l_connection: state.m4l_connection.disconnect();
\* state.m4l_connection = None
ShutdownM4L(i) ==
    /\ ipc[i] = "shutdown_m4l"
    /\ IF state_m4l[i]
       THEN /\ m4l_socks' = [m4l_socks EXCEPT ![i] = "none"]
            /\ state_m4l' = [state_m4l EXCEPT ![i] = FALSE]
       ELSE UNCHANGED <<m4l_socks, state_m4l>>
    /\ ipc' = [ipc EXCEPT ![i] = "release"]
    /\ UNCHANGED <<lockHolder, lock_sock, exitStatus, tried, held, starts, auto_pc, lifeFrame>>

\* _release_singleton_lock(state.singleton_lock_sock);
\* state.singleton_lock_sock = None
ShutdownRelease(i) ==
    /\ ipc[i] = "release"
    /\ lockHolder' = HolderAfterRelease(i, lock_sock[i])
    /\ lock_sock' = [lock_sock EXCEPT ![i] = 0]
    /\ ipc' = [ipc EXCEPT ![i] = "released"]
    /\ UNCHANGED <<exitStatus, tried, held, starts, lifeVars, lifeFrame>>

\* mcp.run() returns and the process ends: its daemon threads end with it
\* and its sockets are closed.
ProcessExit(i) ==
    /\ ipc[i] = "released"
    /\ ipc' = [ipc EXCEPT ![i] = "exited"]
    /\ auto_pc' = [auto_pc EXCEPT ![i] = "off"]
    /\ m4l_socks' = [m4l_socks EXCEPT ![i] = "none"]
    /\ state_m4l' = [state_m4l EXCEPT ![i] = FALSE]
    /\ UNCHANGED <<lockHolder, lock_sock, exitStatus, tried, held, starts, lifeFrame>>

NextLifespan ==
    \E i \in Servers :
        \/ ServerStart(i)
        \/ Acquire(i)
        \/ LifespanStartup(i)
        \/ \E ok \in BOOLEAN : LifespanTool(i, ok)
        \/ \E ok \in BOOLEAN : AutoConnectBind(i, ok)
        \/ AutoConnectAssign(i)
        \/ AutoConnectReturn(i)
        \/ ServerStop(i)
        \/ ShutdownAbleton(i)
        \/ ShutdownM4L(i)
        \/ ShutdownRelease(i)
        \/ ProcessExit(i)

SpecLifespan == InitLock /\ [][NextLifespan]_vars

(***************************************************************************)
(* send_command called with and without a timeout, one caller              *)
(***************************************************************************)
\* A command outside MODIFYING_COMMANDS and one inside, both retried.
CommandsTimeout == {"get_session_info", "set_tempo"}

NextTimeout ==
    \/ \E c \in CommandsTimeout, to \in TimeoutArgs : Call(1, c, to)
    \/ SendCommandStep(1)
    \/ ReceiveStep(1)
    \/ RxRecvClosed(1)
    \/ RemoteStep

SpecTimeout == Init /\ [][NextTimeout]_vars

(***************************************************************************)
(* send_command called with commands that are never retried, one caller,   *)
(* no timeout given                                                        *)
(***************************************************************************)
\* Two commands of NON_IDEMPOTENT_COMMANDS, create_clip and the one that
\* ends in _return_track, beside a command that is retried.
CommandsOnce == {"set_tempo", "create_clip", "delete_return_track"}

NextOnce ==
    \/ \E c \in CommandsOnce : Call(1, c, 0)
    \/ SendCommandStep(1)
    \/ ReceiveStep(1)
    \/ RxRecvClosed(1)
    \/ RemoteStep

SpecOnce == Init /\ [][NextOnce]_vars

(***************************************************************************)
(* Properties of send_command with one caller (Spec)                       *)
(***************************************************************************)
TransportKinds == {"timeout", "reset", "closed", "broken_pipe"}

LastFail(t) == fails[t][Len(fails[t])]

\* The call has left send_command by its final raise Exception(...).
GaveUp(t) == pc[t] = "raised" /\ exc[t].type = "Exception"

Occurrences(log, e) == Cardinality({i \in 1..Len(log) : log[i] = e})

\* The command lines of the current call that reached the remote.
NWrites(t) == Cardinality({i \in 1..Len(events[t]) : events[t][i][1] = "write"})

\* C1: a send_command call for a command type in NON_IDEMPOTENT_COMMANDS
\* calls sendall at most once and never enters a second attempt, whatever
\* failure the attempt meets; it returns only if that attempt did not fail.
C1_NonIdempotentSingleSend ==
    \A t \in Threads :
        (pc[t] # "idle" /\ command_type[t] \in NON_IDEMPOTENT_COMMANDS) =>
            /\ sends[t] <= 1
            /\ attempt[t] = 1
            /\ pc[t] # "reconnect"
            /\ (pc[t] = "returned" => fails[t] = <<>>)
            /\ (fails[t] # <<>> => Len(fails[t]) = 1)

C1_Witness ==
    /\ GaveUp(1)
    /\ command_type[1] = "create_midi_track"
    /\ fails[1] = <<"reset">>
    /\ sends[1] = 1

\* C2: for a command type not in NON_IDEMPOTENT_COMMANDS, a call whose first
\* attempt met one transport failure and whose second attempt succeeded
\* returns the response to its second write and has called sendall exactly
\* twice; such a call does not give up after a single failure.
C2_IdempotentRetryOnce ==
    \A t \in Threads :
        (pc[t] # "idle" /\ command_type[t] \notin NON_IDEMPOTENT_COMMANDS) =>
            /\ (pc[t] = "returned" /\ Len(fails[t]) = 1 /\ fails[t][1] \in TransportKinds)
                  => /\ sends[t] = 2
                     /\ attempt[t] = 2
                     /\ ret[t] = Obj(lastWrite[t], "success")
                     /\ Occurrences(events[t], <<"write", sock>>) = 1
            /\ (GaveUp(t) => Len(fails[t]) = 2)

C2_Witness ==
    /\ pc[1] = "returned"
    /\ command_type[1] = "get_session_info"
    /\ fails[1] = <<"reset">>
    /\ sends[1] = 2

\* C3: a call for a command type of the tier tables named create_*, delete_*
\* or duplicate_* delivers its command line to the remote at most once, so
\* the remote cannot apply the operation twice for one call.
C3_CreateDeleteDuplicateSentOnce ==
    \A t \in Threads :
        (pc[t] # "idle" /\ command_type[t] \in CreateDeleteDuplicateNamed) =>
            NWrites(t) <= 1

\* C4: a response with status "error" is never followed by another send of
\* the command: the attempt that read it is the call's last.
C4_RemoteErrorNotRetried ==
    \A t \in Threads : \A k \in 1..Len(fails[t]) :
        fails[t][k] = "remote_error" => sends[t] <= k

\* C5: an unparseable response line is never followed by another send, and
\* the call that raises for it has called sendall exactly once.
C5_UnparseableNotRetried ==
    \A t \in Threads :
        /\ \A k \in 1..Len(fails[t]) : fails[t][k] = "json_decode" => sends[t] <= k
        /\ (pc[t] = "raised" /\ fails[t] # <<>> /\ LastFail(t) = "json_decode")
              => sends[t] = 1

HandlerPcs == {"except", "except_clear", "except_decide"}

NBackoffs(t) == Occurrences(events[t], <<"sleep", RetryBackoff>>)

Min(a, b) == IF a < b THEN a ELSE b

\* C6: once the except branch has run its disconnect and clear, the socket
\* is closed (self.sock is None, every socket object created is closed) and
\* the receive buffer is empty; the 300 ms backoff is slept exactly once
\* per failed attempt that is not the last one, directly after the clear and
\* directly before a connect; a call that gave up ends on the clear, with no
\* backoff and no connect after it; and a failed reconnect raises
\* ConnectionError with nothing sent after the failure.
C6_FailureTeardownAndBackoff ==
    \A t \in Threads :
        LET log == events[t]
            max == MaxAttempts(command_type[t])
        IN  pc[t] # "idle" =>
            /\ (pc[t] \in {"except_decide", "reconnect"} \/ GaveUp(t)) =>
                  /\ sock = 0
                  /\ recv_buffer = <<>>
                  /\ \A s \in 1..nextSock : s \in closed
            /\ pc[t] \notin HandlerPcs =>
                  NBackoffs(t) = Min(Len(fails[t]), max - 1)
            /\ \A i \in 1..Len(log) :
                  log[i] = <<"sleep", RetryBackoff>> =>
                      /\ i > 1 /\ log[i - 1] = <<"clear", 0>>
                      /\ i < Len(log) => log[i + 1][1] \in {"connect", "connect_failed"}
            /\ GaveUp(t) =>
                  /\ Len(fails[t]) = max
                  /\ log[Len(log)] = <<"clear", 0>>
            /\ (pc[t] = "raised" /\ exc[t].kind = "reconnect_failed") =>
                  /\ exc[t].type = "ConnectionError"
                  /\ log[Len(log)] = <<"connect_failed", 0>>
                  /\ log[Len(log) - 1] = <<"sleep", RetryBackoff>>
                  /\ sends[t] = Len(fails[t])
                  /\ Len(fails[t]) < max

C6_Witness ==
    /\ pc[1] = "raised"
    /\ exc[1].kind = "reconnect_failed"
    /\ fails[1] = <<"timeout">>
    /\ NWrites(1) = 1

\* The response lines that are or will be in front of the caller on socket
\* s: the commands the remote has not answered yet and the lines on the
\* wire; for the current socket also the lines in the receive buffer.
Lines(bs) == Cardinality({i \in 1..Len(bs) : bs[i] = NL})
Outstanding(s) == Len(inbox[s]) + Lines(stream[s]) + Lines(wire[s])
                  + (IF s = sock THEN Lines(recv_buffer) ELSE 0)

\* C7: with one caller, at most one command is outstanding on the
\* connection, and the response send_command parses and returns is the
\* remote's response to the call's most recent write.
C7_ResponseMatchesLastWrite ==
    /\ \A s \in Socks : Outstanding(s) <= 1
    /\ \A t \in Threads :
          /\ (pc[t] = "check" /\ ret[t].c = "obj") => ret[t].id = lastWrite[t]
          /\ pc[t] = "returned" => ret[t] = Obj(lastWrite[t], "success")

\* A later command has returned its own response after the remote answered
\* an earlier write late.
C7_Witness ==
    /\ pc[1] = "returned"
    /\ late > 0
    /\ late < lastWrite[1]
    /\ fails[1] = <<>>

\* C9: a socket on which a read timed out is closed by the very next thing
\* the call does to the channel, the buffer is cleared right after, and the
\* socket is not used again: self.sock is never a closed socket, every
\* receive runs on the open self.sock, and every later write of the call
\* goes to a socket connected after the timeout.
C9_TimedOutSocketAbandoned ==
    /\ sock \notin closed
    /\ \A t \in Threads :
          LET log == events[t]
          IN  /\ pc[t] \in (RxPcs \ {"rx_enter"}) =>
                    rsock[t] = sock /\ sock # 0
              /\ \A i \in 1..Len(log) :
                    log[i][1] = "timeout" =>
                        /\ i + 1 <= Len(log) => log[i + 1][1] = "log"
                        /\ i + 2 <= Len(log) => log[i + 2] = <<"close", log[i][2]>>
                        /\ i + 3 <= Len(log) => log[i + 3] = <<"clear", 0>>
                        /\ pc[t] \notin {"except", "except_clear"} =>
                              log[i][2] \in closed
                        /\ \A j \in (i + 1)..Len(log) :
                              log[j][1] \in {"write", "timeout", "recv_failed", "send_failed"}
                                  => log[j][2] > log[i][2]

C9_Witness ==
    /\ pc[1] = "returned"
    /\ \E i, j \in 1..Len(events[1]) :
          /\ i < j
          /\ events[1][i] = <<"timeout", 1>>
          /\ events[1][j] = <<"write", 2>>

(***************************************************************************)
(* Properties of send_command with two callers (SpecTwo)                   *)
(***************************************************************************)
\* C8: nothing serialises two send_command calls on the shared connection.
\* A caller whose call ran alone is returned the response to its own write;
\* the response to another caller's command is returned only to a caller
\* whose call overlapped another call, and that case is reachable
\* (C8_Witness).
C8_ForeignResponseOnlyWhenOverlapped ==
    \A t \in Threads :
        (pc[t] = "returned" /\ ret[t].id # lastWrite[t]) => overlapped[t]

\* A caller has been returned the response to the other caller's write.
C8_Witness ==
    \E t \in Threads : \E u \in Threads \ {t} :
        /\ pc[t] = "returned"
        /\ ret[t].c = "obj"
        /\ lastWrite[t] # 0
        /\ lastWrite[u] # 0
        /\ ret[t].id = lastWrite[u]
        /\ ret[t].id # lastWrite[t]

(***************************************************************************)
(* Properties of receive_full_response (SpecRecv)                          *)
(***************************************************************************)
\* The first complete line of text that is not blank, and what follows it.
RECURSIVE FirstLine(_)
FirstLine(text) ==
    IF ~HasNL(text)
    THEN [found |-> FALSE, line |-> <<>>, rest |-> text]
    ELSE IF Strip(SplitLine(text)) = <<>>
         THEN FirstLine(SplitRest(text))
         ELSE [found |-> TRUE, line |-> Strip(SplitLine(text)),
               rest |-> SplitRest(text)]

\* C10: whatever pieces recv hands the bytes over in, a call that returns
\* returns the parsed first complete non-blank line of its input and leaves
\* exactly the characters after that line unread; and when its input holds
\* such a line and the line is JSON, the call does not raise.
C10_ReturnsFirstCompleteLine ==
    LET f == FirstLine(rxInput)
    IN  /\ pc[1] = "rx_returned" =>
              /\ f.found
              /\ IsJson(f.line)
              /\ ret[1] = JsonLoads(f.line)
              /\ Unread = f.rest
        /\ (f.found /\ IsJson(f.line)) => pc[1] # "rx_raised"

(***************************************************************************)
(* Properties of get_ableton_connection (SpecGet)                          *)
(***************************************************************************)
\* get_ableton_connection has just returned (the caller has not used the
\* connection yet).
JustReturned == gpc = "g_returned" /\ pc[1] = "idle"

\* C11: a call that found an instance whose probe succeeded returns that
\* instance, on a socket that exists and is not closed, and has created no
\* instance, opened no socket, written no command and left
\* state.ableton_connection as it was.
C11_ValidChannelReused ==
    (JustReturned /\ gprobe = "ok") =>
        /\ g0.conn # 0
        /\ gret = g0.conn
        /\ conn = g0.conn
        /\ sock # 0
        /\ sock \notin closed
        /\ nextConn = g0.inst
        /\ nextSock = g0.sock
        /\ nextId = g0.id

C11_Witness ==
    /\ JustReturned
    /\ gprobe = "ok"
    /\ gcalls = 2
    /\ gret = 1

\* C12: once the probe has failed and the except branch has run, the old
\* instance is gone from state.ableton_connection and every socket that
\* existed at the call is closed; no instance or socket is created before
\* that; and the instance returned is one created by this call.
C12_DeadChannelDiscarded ==
    /\ gpc \in {"probe", "discard"} =>
          nextConn = g0.inst /\ nextSock = g0.sock
    /\ (gprobe = "failed" /\ gpc \notin ({"idle", "probe", "discard"})) =>
          /\ conn # g0.conn
          /\ \A s \in 1..g0.sock : s \in closed
          /\ conn # 0 => conn > g0.inst
          /\ JustReturned => gret > g0.inst /\ gret = conn

C12_Witness ==
    /\ JustReturned
    /\ gprobe = "failed"
    /\ g0.conn = 1
    /\ gret = 2

\* C13: a call that returns a new instance has set ableton_connected_event
\* and returns the instance on which get_session_info just returned a
\* response with status "success" to a write of this call; the event is not
\* set before the first validation succeeded; and after a failed connect or
\* a failed validation no instance is held and every socket is closed.
C13_SuccessOnlyAfterValidation ==
    /\ (JustReturned /\ gprobe # "ok") =>
          /\ connected_event
          /\ gret = conn
          /\ conn = nextConn
          /\ conn > g0.inst
          /\ command_type[1] = "get_session_info"
          /\ ret[1] = Obj(lastWrite[1], "success")
          /\ lastWrite[1] > g0.id
          /\ sock # 0
          /\ sock \notin closed
    /\ (gcalls = 1 /\ gpc # "g_returned") => ~connected_event
    /\ gpc \in {"wait", "create", "g_raised"} =>
          /\ conn = 0
          /\ sock = 0
          /\ \A s \in 1..nextSock : s \in closed

C13_Witness ==
    /\ JustReturned
    /\ gprobe = "none"
    /\ gattempt = 2
    /\ nextSock = 2
    /\ connected_event

\* C14: one call of get_ableton_connection opens at most 3 sockets, sleeps
\* 1 s once between two attempts and not after the last, and makes at most
\* 3 attempts.
C14_AtMostThreeSockets ==
    gpc # "idle" =>
        /\ gattempt <= GetMaxAttempts
        /\ nextSock - g0.sock <= GetMaxAttempts
        /\ gsleeps = gattempt - 1

(***************************************************************************)
(* Properties of the singleton lock (SpecLock)                             *)
(***************************************************************************)
\* C15: at most one server process holds the lock socket, and it is the one
\* bound to the port; a process past the guard keeps the port until its own
\* shutdown, whatever the other process does; a process whose bind failed
\* exits with status 1, has never called get_ableton_connection and holds
\* no connection.
C15_SingletonLockExclusive ==
    /\ Cardinality({i \in Servers : lock_sock[i] # 0}) <= 1
    /\ \A i \in Servers :
          /\ lock_sock[i] # 0 => lockHolder = i
          /\ ipc[i] \in {"connect", "running"} => lockHolder = i /\ lock_sock[i] # 0
          /\ (tried[i] \/ held[i]) => exitStatus[i] # 1
          /\ (ipc[i] \in {"shutdown", "exited"} /\ ~tried[i] /\ starts[i] > 0)
                => exitStatus[i] = 1

\* One process runs with the lock while the other has exited with status 1.
C15_Witness ==
    /\ ipc[1] = "running"
    /\ lockHolder = 1
    /\ ipc[2] = "exited"
    /\ exitStatus[2] = 1
    /\ ~tried[2]

(***************************************************************************)
(* Properties of send_command's failures and delays (Spec)                 *)
(***************************************************************************)
\* C16: the exception that leaves send_command is typed by what went
\* wrong: ConnectionError exactly when no connection could be established,
\* a timeout error when the last attempt timed out, a remote error when the
\* last attempt read a response with status "error".
C16_FailureKindIdentifiesCause ==
    \A t \in Threads :
        pc[t] = "raised" =>
            /\ exc[t].type = "ConnectionError"
                  <=> exc[t].kind \in {"not_connected", "reconnect_failed"}
            /\ exc[t].kind = "timeout" => exc[t].type = "timeout"
            /\ exc[t].kind = "remote_error" => exc[t].type = "remote_error"

\* The delays the tiers carry, in milliseconds.
TierPreDelay(c) == IF c \in TIER_2_COMMANDS THEN 100 ELSE 0
TierPostDelay(c) ==
    IF c \in TIER_2_COMMANDS THEN 100 ELSE IF c \in TIER_1_COMMANDS THEN 50 ELSE 0

\* C17: in the call's log every write is followed by the tier's pre-delay
\* sleep (if the tier has one) and then by the read (its settimeout); a
\* sleep that is not the reconnect backoff is either that pre-delay or the
\* tier's post-delay, which is the call's last event, comes after a read
\* and occurs only in a call that returned; a call that returned for a tier
\* with a post-delay has slept it, on a response with status "success".
C17_DelayOrder ==
    \A t \in Threads :
        LET log == events[t]
            pre == TierPreDelay(command_type[t])
            post == TierPostDelay(command_type[t])
            IsPre(i) == /\ pre # 0
                        /\ i > 1
                        /\ log[i] = <<"sleep", pre>>
                        /\ log[i - 1][1] = "write"
            IsPost(i) == /\ post # 0
                         /\ i = Len(log)
                         /\ i > 1
                         /\ log[i] = <<"sleep", post>>
                         /\ log[i - 1][1] # "write"
                         /\ pc[t] = "returned"
        IN  pc[t] # "idle" =>
            /\ \A i \in 1..Len(log) :
                  /\ log[i][1] = "write" =>
                        IF pre # 0
                        THEN /\ i + 1 <= Len(log)
                             /\ log[i + 1] = <<"sleep", pre>>
                             /\ i + 2 <= Len(log) => log[i + 2][1] = "settimeout"
                        ELSE i + 1 <= Len(log) => log[i + 1][1] = "settimeout"
                  /\ (log[i][1] = "sleep" /\ log[i][2] # RetryBackoff) =>
                        IsPre(i) \/ IsPost(i)
            /\ pc[t] = "returned" =>
                  /\ ret[t].st = "success"
                  /\ post # 0 => IsPost(Len(log))
            /\ pc[t] \in {"raised", "except", "except_clear", "except_decide", "reconnect"}
                  => \A i \in 1..Len(log) : ~IsPost(i)

\* A Tier 2 call that failed once and then returned: write, pre-delay, read
\* in both attempts and one post-delay at the end.
C17_Witness ==
    /\ pc[1] = "returned"
    /\ command_type[1] = "load_sample"
    /\ fails[1] = <<"timeout">>
    /\ Occurrences(events[1], <<"sleep", 100>>) = 3

\* C18: a call for a command of Tier 0 or of no tier that returned from its
\* first attempt has slept nowhere and returns the response to its write.
C18_TierZeroNoSleep ==
    \A t \in Threads :
        (/\ pc[t] = "returned"
         /\ fails[t] = <<>>
         /\ command_type[t] \notin (TIER_1_COMMANDS \cup TIER_2_COMMANDS)) =>
            /\ \A i \in 1..Len(events[t]) : events[t][i][1] # "sleep"
            /\ ret[t] = Obj(lastWrite[t], "success")
            /\ sends[t] = 1

C18_Witness ==
    /\ pc[1] = "returned"
    /\ command_type[1] = "set_tempo"
    /\ fails[1] = <<>>
    /\ Len(events[1]) >= 2
    /\ \A i \in 1..Len(events[1]) : events[1][i][1] # "sleep"

(***************************************************************************)
(* Properties of send_command's receive timeout (SpecTimeout)              *)
(***************************************************************************)
\* C19: every receive of a call sets the socket timeout to the caller's
\* timeout when one was given, and otherwise to 15 s for a command type in
\* MODIFYING_COMMANDS and to 10 s for any other; so all attempts of a call
\* use one value.
C19_EffectiveTimeout ==
    \A t \in Threads :
        LET want == IF timeoutArg[t] # 0 THEN timeoutArg[t]
                    ELSE IF command_type[t] \in MODIFYING_COMMANDS THEN 15000
                    ELSE 10000
        IN  pc[t] # "idle" =>
            /\ \A i \in 1..Len(events[t]) :
                  events[t][i][1] = "settimeout" => events[t][i][2] = want
            /\ timeout[t] \in {timeoutArg[t], want}
            /\ pc[t] \in (RxPcs \ {"rx_enter"}) => timeout[t] = want

\* A retried call with a caller's timeout: both attempts used it.
C19_Witness ==
    /\ pc[1] = "returned"
    /\ command_type[1] = "set_tempo"
    /\ timeoutArg[1] = 1000
    /\ fails[1] = <<"timeout">>
    /\ Occurrences(events[1], <<"settimeout", 1000>>) = 2

(***************************************************************************)
(* Properties of get_m4l_status (SpecM4L)                                  *)
(***************************************************************************)
\* C20 as stated, its second-check part: of two checks with ready sockets
\* made less than M4L_PING_CACHE_TTL apart, with no write to the cache by
\* another thread between them, the second performs no ping and returns what
\* the first returned.
C20_SecondCheckNeverPings ==
    \A i, j \in 1..Len(checks) :
        ( /\ i < j
          /\ checks[i].ready
          /\ checks[j].ready
          /\ ~(i <= autoAt /\ autoAt < j)
          /\ checks[j].now - checks[i].now < 5 ) =>
            /\ ~checks[j].pinged
            /\ checks[j].result = checks[i].result

\* C20: of two checks with ready sockets made less than M4L_PING_CACHE_TTL
\* (5 s) apart, the first of which performed the ping, no check after the
\* first up to the second performs a ping, and the second returns the result
\* the first stored unless the auto-connect thread wrote the cache in between.
C20_CachedWithinTTLOfPing ==
    \A i, j \in 1..Len(checks) :
        ( /\ i < j
          /\ checks[i].ready
          /\ checks[i].pinged
          /\ checks[j].ready
          /\ checks[j].now - checks[i].now < 5 ) =>
            /\ \A k \in (i + 1)..j : ~checks[k].pinged
            /\ ~(i <= autoAt /\ autoAt < j) => checks[j].result = checks[i].result

\* A check 4 s after a check whose ping succeeded returned the stored result.
C20_Witness ==
    \E i, j \in 1..Len(checks) :
        /\ i < j
        /\ checks[i].pinged
        /\ checks[i].result
        /\ checks[j].ready
        /\ checks[j].now - checks[i].now = 4
        /\ ~checks[j].pinged
        /\ checks[j].result
        /\ autoAt = -1

(***************************************************************************)
(* Properties of the command tables                                        *)
(***************************************************************************)
TierTables == {TIER_0_COMMANDS, TIER_1_COMMANDS, TIER_2_COMMANDS}

\* C30: no command type is in two of the three tier tables, and
\* MODIFYING_COMMANDS holds exactly the command types of the three tables:
\* a command type is in one table when it is modifying and in none otherwise,
\* the command of the call in progress included.
C30_TiersPartitionModifying ==
    /\ \A S \in TierTables : \A T \in TierTables \ {S} : S \cap T = {}
    /\ \A c \in MODIFYING_COMMANDS : Cardinality({T \in TierTables : c \in T}) = 1
    /\ \A T \in TierTables : T \subseteq MODIFYING_COMMANDS
    /\ Cardinality(MODIFYING_COMMANDS)
          = Cardinality(TIER_0_COMMANDS) + Cardinality(TIER_1_COMMANDS)
            + Cardinality(TIER_2_COMMANDS)
    /\ \A t \in Threads :
          Cardinality({T \in TierTables : command_type[t] \in T})
              = IF command_type[t] \in MODIFYING_COMMANDS THEN 1 ELSE 0

\* A call of a Tier 1 command returned after its 50 ms post-delay and no
\* pre-delay: it was paced by one tier only.
C30_Witness ==
    /\ pc[1] = "returned"
    /\ command_type[1] = "duplicate_clip_loop"
    /\ command_type[1] \in TIER_1_COMMANDS \ (TIER_0_COMMANDS \cup TIER_2_COMMANDS)
    /\ Occurrences(events[1], <<"sleep", 50>>) = 1
    /\ Occurrences(events[1], <<"sleep", 100>>) = 0

(***************************************************************************)
(* Properties of send_command's failure log (Spec)                         *)
(***************************************************************************)
\* C27: when send_command has raised to its caller, the call has written a
\* log record "Command '<command_type>' attempt <n> failed" for its last
\* attempt before the raise.
C27_FailureLoggedBeforeRaise ==
    \A t \in Threads :
        (mode[t] = "cmd" /\ pc[t] = "raised") =>
            \E i \in 1..Len(events[t]) : events[t][i] = <<"log", attempt[t]>>

(***************************************************************************)
(* Properties of send_udp_command (SpecUdp)                                *)
(***************************************************************************)
\* C26: a call of send_udp_command hands exactly one datagram of its command
\* type to the network when it returns and none when sendto raises, on the
\* connection's current UDP socket; it changes neither self.sock nor the
\* receive buffer, writes nothing to and reads nothing from a TCP socket,
\* opens and closes none, and it does so with and without a TCP socket.
C26_OneDatagramNoTcp ==
    [][ udp_last' # udp_last =>
          /\ Len(datagrams') = Len(datagrams)
                + (IF udp_last'.outcome = "returned" THEN 1 ELSE 0)
          /\ udp_last'.outcome = "returned" =>
                datagrams'[Len(datagrams')] = [sock |-> udp_sock', type |-> udp_last'.type]
          /\ SubSeq(datagrams', 1, Len(datagrams)) = datagrams
          /\ udp_sock' # 0
          /\ udp_sock' \notin udp_closed'
          /\ sock' = sock
          /\ recv_buffer' = recv_buffer
          /\ nextSock' = nextSock
          /\ closed' = closed
          /\ inbox' = inbox
          /\ stream' = stream
          /\ nextId' = nextId
          /\ pc' = pc
      ]_vars

\* Two calls returned, the second after a failed send_command had closed
\* both sockets: it went out on a new UDP socket, with no TCP socket.
C26_Witness ==
    /\ udp_last.calls = 2
    /\ udp_last.outcome = "returned"
    /\ udp_last.sock = 0
    /\ sock = 0
    /\ pc[1] = "raised"
    /\ Len(datagrams) = 2
    /\ datagrams[1].sock = 1
    /\ datagrams[2].sock = 2
    /\ udp_closed = {1}

(***************************************************************************)
(* Properties of populate_browser_cache (SpecScan)                         *)
(***************************************************************************)
\* C28: during and after a scan state.ableton_connection is still instance 1
\* with its socket, which nobody has closed; the connection the scan works
\* on never holds that socket, is never read on it, and nothing the scan
\* wrote is on it; and when the scan has ended, whichever way, the scan's
\* connection has no socket, every socket it opened is closed and the
\* populating flag is down.
C28_ScanUsesOwnConnection ==
    /\ conn = 1
    /\ shared_sock = 1
    /\ shared_sock \notin closed
    /\ sock # shared_sock
    /\ \A t \in Threads : InCall(t) => rsock[t] # shared_sock
    /\ inbox[shared_sock] = <<>>
    /\ scan_pc = "done" =>
          /\ sock = 0
          /\ \A s \in 2..nextSock : s \in closed
          /\ udp_sock = 0
          /\ ~browser_cache_populating
          /\ scan_ret \in {"true", "false", "raised"}

\* A scan ended with True after a command that failed and one that
\* succeeded on a second socket of its own, while another tool used the
\* shared connection.
C28_Witness ==
    /\ scan_pc = "done"
    /\ scan_ret = "true"
    /\ nextConn = 2
    /\ nextSock >= 3
    /\ budget[1] = 0
    /\ shared_uses = 1
    /\ closed = 2..nextSock

(***************************************************************************)
(* Properties of _tool_handler (SpecTool)                                  *)
(***************************************************************************)
ValueErrors == {"ValueError", "JSONDecodeError"}
ConnectionErrors == {"ConnectionError", "ConnectionResetError"}
OtherExceptions == {"OSError", "RuntimeError", "Exception"}

ErrorEnvelope(r, head) ==
    /\ r.kind = "envelope"
    /\ r.status = "error"
    /\ SubSeq(r.message, 1, Len(head)) = head
    /\ r.message[Len(r.message)] = tool_outcome.text

OkEnvelope(r) ==
    r = [kind |-> "envelope", status |-> "ok", message |-> <<tool_outcome.text>>]

\* What the wrapper does with the exceptions that are Exceptions.
ExceptionsEnveloped ==
    /\ tool_outcome.kind = "raise" /\ tool_outcome.cls \in ValueErrors =>
          ErrorEnvelope(tool_result, <<"Invalid input: ">>)
    /\ tool_outcome.kind = "raise" /\ tool_outcome.cls \in ConnectionErrors =>
          ErrorEnvelope(tool_result, <<"M4L bridge not available: ">>)
    /\ tool_outcome.kind = "raise" /\ tool_outcome.cls \in OtherExceptions =>
          ErrorEnvelope(tool_result, <<"Error ", tool_prefix, ": ">>)

FirstNonSpace(x) ==
    IF \A i \in 1..Len(x) : x[i] = " " THEN " "
    ELSE x[CHOOSE i \in 1..Len(x) : x[i] # " " /\ \A j \in 1..(i - 1) : x[j] = " "]

C25_BatchTimeoutIsMax ==
    /\ batch_last.timeout >= batch_last.count * 150
    /\ batch_last # NoBatch =>
          /\ batch_last.timeout >= 10000
          /\ batch_last.timeout \in {10000, batch_last.count * 150}
    /\ (batch_prev # NoBatch /\ batch_prev.count <= batch_last.count) =>
          batch_prev.timeout <= batch_last.timeout

\* A batch of 70 parameters after one of 20: 10.5 s after 10 s.
C25_Witness ==
    /\ batch_prev = [count |-> 20, timeout |-> 10000]
    /\ batch_last = [count |-> 70, timeout |-> 10500]

(***************************************************************************)
(* Properties of the control-message encoding (SpecOsc)                    *)
(***************************************************************************)
\* The length is a multiple of 4 and a second encoding gives the same bytes.
OscAlignedAndDeterministic ==
    /\ osc_pc # "idle" => Len(osc_msg) % 4 = 0 /\ Len(osc_msg) > 0
    /\ osc_again # <<>> => osc_again = osc_msg

Arrived == {chunk_order[k] : k \in 1..Len(chunk_order)}

\* C23: a response of one chunk is decoded and returned at once, with no
\* recvfrom call, and the value is the document.
C23_SingleChunkImmediate ==
    (Len(chunk_parts) = 1 /\ chunk_pc # "sent") =>
        /\ chunk_pc = "done"
        /\ chunk_recvs = 0
        /\ chunk_result = [kind |-> "payload", v |-> chunk_doc]

\* A one-chunk response of a two-element document came back.
C23_Witness ==
    /\ Len(chunk_parts) = 1
    /\ chunk_pc = "done"
    /\ chunk_doc = <<1, 2>>
    /\ chunk_result.kind = "payload"

\* C22: for a response of more than one chunk the buffer holds, under each
\* index that arrived, the slice of that index; a payload is returned only
\* when every index 0..total-1 arrived, a chunk that arrived twice leaves it
\* the document, and until then the call is still receiving or failed.
C22_ReassemblyOnlyWhenComplete ==
    Len(chunk_parts) > 1 =>
        /\ DOMAIN chunk_buf = Arrived
        /\ \A i \in DOMAIN chunk_buf : chunk_buf[i] = B64Encode(chunk_parts[i + 1])
        /\ chunk_result.kind = "payload" =>
              /\ Arrived = 0..(Len(chunk_parts) - 1)
              /\ chunk_result.v = chunk_doc
        /\ (chunk_pc = "waiting") = (chunk_result.kind = "none" /\ chunk_order # <<>>)
        /\ Arrived # 0..(Len(chunk_parts) - 1) => chunk_result.kind # "payload"

\* Three chunks, one of them twice before the last one came, and a payload.
C22_Witness ==
    /\ Len(chunk_parts) = 3
    /\ chunk_order = <<2, 0, 2, 1>>
    /\ chunk_result.kind = "payload"

\* C21: whatever the order the chunks arrived in, the payload returned is
\* the document that was cut.
C21_OrderIndependent ==
    (chunk_pc = "done" /\ Arrived = 0..(Len(chunk_parts) - 1)) =>
        chunk_result = [kind |-> "payload", v |-> chunk_doc]

\* Three chunks arrived as 2, 0, 1 and the document came back.
C21_Witness ==
    /\ chunk_order = <<2, 0, 1>>
    /\ chunk_pc = "done"
    /\ chunk_doc = <<2, 1>>
    /\ chunk_result = [kind |-> "payload", v |-> <<2, 1>>]

(***************************************************************************)
(* Properties of the commands that are never retried (SpecOnce)            *)
(***************************************************************************)
\* C35: the command type of every call of a command in
\* NON_IDEMPOTENT_COMMANDS is in MODIFYING_COMMANDS, and every receive of
\* such a call, made without a caller's timeout, waits with the 15 s default.
C35_NonIdempotentAreModifying ==
    \A t \in Threads :
        (pc[t] # "idle" /\ command_type[t] \in NON_IDEMPOTENT_COMMANDS) =>
            /\ command_type[t] \in MODIFYING_COMMANDS
            /\ \A i \in 1..Len(events[t]) :
                  events[t][i][1] = "settimeout" => events[t][i][2] = 15000

(***************************************************************************)
(* Properties of the channel after a send_command call (Spec)              *)
(***************************************************************************)
\* C32: when a call of send_command has returned, self.sock is a socket
\* that was not closed; when it has raised, whatever the failure, self.sock
\* is None and the receive buffer is empty.
C32_SockOpenIffReturned ==
    /\ pc[1] = "returned" => sock # 0 /\ sock \notin closed
    /\ pc[1] = "raised" => sock = 0 /\ recv_buffer = <<>>

\* A call of a command that is not retried wrote its line once, failed and
\* raised: the socket it used is closed and self.sock is None.
C32_Witness ==
    /\ pc[1] = "raised"
    /\ command_type[1] = "create_midi_track"
    /\ NWrites(1) = 1
    /\ sock = 0
    /\ closed = {1}

(***************************************************************************)
(* Properties of receive_full_response's buffer (SpecRecv)                 *)
(***************************************************************************)
\* C33: while the receive buffer holds a complete non-blank line that is
\* JSON, blank lines before it or not, receive_full_response does not read
\* from the socket, and it does not leave with a timeout.
C33_BufferedLineNeedsNoRecv ==
    LET f == FirstLine(recv_buffer)
    IN  (f.found /\ IsJson(f.line)) =>
            /\ pc[1] # "rx_recv"
            /\ ~(pc[1] = "rx_raised" /\ exc[1].kind = "timeout")

(***************************************************************************)
(* Properties of get_ableton_connection's outcomes (SpecGet)               *)
(***************************************************************************)
\* C34: when get_ableton_connection has raised, state.ableton_connection is
\* None and every socket connected so far, those of the instances the call
\* created included, has been closed; when it has returned, the instance
\* returned is state.ableton_connection and its sock is a socket that was
\* not closed.
C34_RaiseLeavesNothingOpen ==
    /\ gpc = "g_raised" =>
          /\ conn = 0
          /\ sock = 0
          /\ \A s \in 1..nextSock : s \in closed
    /\ JustReturned =>
          /\ gret # 0
          /\ gret = conn
          /\ sock # 0
          /\ sock \notin closed

\* A call raised after three attempts, at least one of which connected and
\* failed its validation.
C34_Witness ==
    /\ gpc = "g_raised"
    /\ gattempt = 3
    /\ nextConn - g0.inst = 3
    /\ nextSock > g0.sock
    /\ closed # {}

(***************************************************************************)
(* Properties of two concurrent get_ableton_connection calls (SpecRace)    *)
(***************************************************************************)
\* C31: of two calls made while no connection exists, each one that
\* returns returns an instance (not None) whose validation succeeded; when
\* both have returned they hold the same instance; and when both have ended,
\* every instance that has an open socket is the one in
\* state.ableton_connection.
C31_ConcurrentCallersShareOneValidated ==
    /\ \A t \in Threads :
          cpc[t] = "returned" => cret[t] # 0 /\ cret[t] \in validated
    /\ (\A t \in Threads : cpc[t] = "returned") => cret[1] = cret[2]
    /\ (\A t \in Threads : RaceEnded(t)) =>
          \A i \in 1..nextInst : inst_sock[i] = "open" => shared_conn = i


\* The threads that are between setting browser_cache_populating and the
\* finally block that clears it.
Scanners == {t \in Threads : bpc[t] \in {"create", "connect", "scan", "recover", "store_lock",
                                         "store", "finally_lock", "finally"}}

\* C36: at most one thread scans the browser at a time: the flag
\* browser_cache_populating is true exactly while one thread is between
\* setting it and its finally block, a thread tests, sets and clears it only
\* while it holds browser_cache_lock, and a call that finds it set (with
\* force=True too) returns True without scanning and leaves it set.
C36_OneScannerAtATime ==
    /\ Cardinality(Scanners) <= 1
    /\ browser_cache_populating = (Scanners # {})
    /\ \A t \in Threads : bpc[t] \in {"enter", "store", "finally"} => browser_cache_lock = t
    /\ \A t \in Threads : bpc[t] \in {"idle", "done"} => bsock[t] = "none"

\* A forced call returned True while the other thread is in its scan.
C36_Witness ==
    /\ bpc[1] = "scan" /\ bcat[1] = 2
    /\ bpc[2] = "done" /\ bforce[2] /\ bret[2] = "true" /\ bcalls = 2
    /\ browser_cache_timestamp = 0
    /\ browser_cache_populating

\* Under fair scheduling of the threads the flag is false again after each
\* scan, however the scan ends.
PopulatingEventuallyCleared == browser_cache_populating ~> ~browser_cache_populating

\* C37: the cache is replaced, and its timestamp set, only by a scan that
\* read every path of every category: whenever the timestamp has been set the
\* cache holds the items of all MaxCats * MaxPaths paths.
C37_CacheOnlyFromCompleteScan ==
    browser_cache_timestamp > 0 => browser_cache_flat = MaxCats * MaxPaths

\* C38: a server process attempts a connection to Ableton or to the M4L
\* bridge only while it holds the singleton lock, the only start that is
\* aborted is the one that did not get the lock, and whenever the process
\* holds an open channel (the Ableton connection or the UDP sockets of the M4L
\* bridge) it holds the lock.
C38_LockHeldWhileChannelOpen ==
    \A i \in Servers :
        /\ ipc[i] \in {"connect", "running"} => lockHolder = i
        /\ exitStatus[i] = 1 => ~tried[i]
        /\ (held[i] \/ m4l_socks[i] = "open") => lockHolder = i


\* C39 as stated: once a check has stored the result of its ping, every check
\* with ready sockets made less than M4L_PING_CACHE_TTL (5 s) after it
\* performs no ping and returns that result.
C39_StoredResultUntilExpiry ==
    \A i, j \in 1..Len(checks) :
        ( /\ i < j
          /\ checks[i].pinged
          /\ checks[j].ready
          /\ checks[j].now - checks[i].now < 5 ) =>
            /\ ~checks[j].pinged
            /\ checks[j].result = checks[i].result

\* C39: a check with ready sockets made while the entry is less than 5 s old
\* starts no ping, returns the result of the entry and leaves the entry as it
\* is; the entry changes only when a result is stored, by the check that
\* pinged (under the time it read) or by the auto-connect thread whose ping
\* was answered (True, under the current time); connecting and disconnecting
\* leave it unchanged.
C39_EntryInvalidatedOnlyByAgeOrStore ==
    [][ /\ (mpc = "idle" /\ mpc' = "ping") => clock - m4l_ping_cache.timestamp >= 5
        /\ ( /\ Len(checks') > Len(checks)
             /\ mpc = "idle"
             /\ m4l_connection = "connected"
             /\ clock - m4l_ping_cache.timestamp < 5 ) =>
               /\ ~checks'[Len(checks')].pinged
               /\ checks'[Len(checks')].result = m4l_ping_cache.result
               /\ m4l_ping_cache' = m4l_ping_cache
        /\ m4l_ping_cache' # m4l_ping_cache =>
               \/ /\ mpc = "ping" /\ mpc' = "idle"
                  /\ m4l_ping_cache'.timestamp = mnow
                  /\ m4l_ping_cache'.result = checks'[Len(checks')].result
               \/ /\ auto = "trying" /\ auto' = "done"
                  /\ m4l_ping_cache' = [result |-> TRUE, timestamp |-> clock]
        /\ m4l_connection' # m4l_connection => m4l_ping_cache' = m4l_ping_cache
      ]_vars

\* A check stored False; the auto-connect thread stored True less than 5 s
\* later; the connection is connected again after a disconnect or was never
\* disconnected; a check less than 5 s after the first returned True without
\* a ping.
C39_Witness ==
    \E i, j \in 1..Len(checks) :
        /\ i < j
        /\ checks[i].pinged
        /\ ~checks[i].result
        /\ i <= autoAt /\ autoAt < j
        /\ checks[j].ready
        /\ checks[j].now - checks[i].now < 5
        /\ ~checks[j].pinged
        /\ checks[j].result
        /\ m4l_ping_cache.result

====
